---- MODULE Spec2Model ----
(***************************************************************************)
(* A model of the change-tracking core of claude-code-diffs:               *)
(*   - LiveDiffTracker   (src/src/live-mode/live-diff-tracker.ts)          *)
(*   - HeuristicTracker  (src/src/diff-tracker/diff-tracker.ts)            *)
(* The host (VS Code / Node) is single threaded: every handler runs to its *)
(* first await without interleaving, so each action below is one such      *)
(* synchronous run.  A timer callback that awaits is split at the await.   *)
(***************************************************************************)
EXTENDS Integers, Sequences, FiniteSets, TLC

(***************************************************************************)
(* Bounds of the model.                                                    *)
(***************************************************************************)
\* the number of setTimeout calls LiveDiffTracker makes in one run
MaxTimers == 3
\* the longest change list handed to processChanges
MaxBatch == 2
\* the number of setTimeout calls HeuristicTracker makes in one run
MaxHeuristicTimers == 2
\* the number of file watchers HeuristicTracker creates in one run
MaxWatchers == 2
\* the number of timers in a run of the save detection alone
MaxSaveTimers == 1
\* the number of timers in a run of the change detection alone
MaxWatchTimers == 1
\* the number of timers in a run of the whole detector with oversized files
MaxDetectTimers == 1
\* in one extractFileChanges call, the number of events taken plus the
\* number of content items taken of one event
MaxIterations == 3
\* the number of lines of a session file
MaxLines == 2
\* the number of changes of the current session, and the greatest `limit`
MaxSessionChanges == 3
\* the number of characters of a workspace path
MaxPathLength == 5

\* the longest exclusion pattern, in characters
MaxPatternLength == 3

\* the longest file path tested against a pattern, in characters
MaxGlobPathLength == 3

\* the most showDiff calls of one behaviour
MaxShowCalls == 2

\* the most saves of the one document of SpecSaveAgain
MaxSavesOfOne == 2

(***************************************************************************)
(* FileChange records (src/src/types/session-events.ts).  c1 and c2 are    *)
(* two edits of one file inside one assistant message, c3 another file of  *)
(* a later message.                                                        *)
(***************************************************************************)
FileChange(sid, uuid, file, tool, new) ==
  [sessionId |-> sid, messageUuid |-> uuid, filePath |-> file,
   toolName |-> tool, newContent |-> new]

Changes ==
  { FileChange("s1", "u1", "/a.ts", "Edit", "x"),
    FileChange("s1", "u1", "/a.ts", "Edit", "y"),
    FileChange("s1", "u2", "/b.ts", "Write", "z") }

\* the change lists processChanges is called with: up to MaxBatch distinct
\* records of one extraction, in any order
Batches ==
  { b \in UNION { [1..n -> Changes] : n \in 0..MaxBatch } :
      \A i, j \in DOMAIN b : i # j => b[i] # b[j] }

\* values of the liveDelay setting (ms); 1000 is the default
Delays == {500, 1000}

VARIABLES
  \* ---- LiveDiffTracker
  lastSeenChanges,   \* Set<string>
  pendingDiffs,      \* Map<string, Timeout>: change key -> timer id
  isEnabled,         \* boolean
  delay,             \* number
  timers,            \* every setTimeout made so far: id -> [key, change, st]
  showDiffCalls,     \* the timers whose callback has invoked DiffTracker.showDiff
  errorMessages,     \* number of showErrorMessage('Failed to open diff') calls
  \* ---- history
  disabledKeys,      \* keys whose pending delivery a setEnabled(false) cancelled,
                     \* since the last reset()
  \* ---- HeuristicTracker
  fileSnapshots,     \* Map<string, string>: document -> last known text
  hIsEnabled,        \* HeuristicTracker.isEnabled
  pendingChanges,    \* Map<string, Timeout>: document -> timer id
  fileWatcher,       \* the watcher the tracker holds, 0 for null
  liveWatchers,      \* the watchers created and not disposed
  watchersCreated,   \* how many watchers were created so far
  heuristicChanges,  \* FileChange[]
  hTimers,           \* every setTimeout made so far:
                     \*   id -> [kind, doc, original, content, st]
  \* ---- SessionParser.extractFileChanges, one call
  currentEvent,      \* `event` of the outer loop
  eventIndex,        \* how many events the outer loop has taken
  itemIndex,         \* how many items of this event the inner loop has taken
  extractedChanges,  \* `changes`
  extractStatus,     \* "running", "returned" or "threw" (a TypeError escaped)
  \* ---- SessionParser.parseSessionFile, one call
  sessionFile,       \* the text of the file at sessionFilePath
  lines,             \* the lines the loop has not taken yet
  events,            \* `events`
  decodeStatus,      \* "idle", "looping" or "returned"
  \* ---- SessionParser and the file system it reads
  projectsDirs,      \* instance -> the status of <instance>/projects
  workspaceDirs,     \* instance -> the status of <instance>/projects/<encoded>
  dirEntries,        \* entry of the workspace directory -> its status
  newestFile,        \* the entry with the greatest mtimeMs
  locatorResult,     \* the outcome of the last getCurrent/getAllSessionChanges
  \* ---- SessionParser.getRecentChanges
  sessionChanges,    \* what getCurrentSessionChanges returns, in extraction order
  recentChanges,     \* what the last getRecentChanges returned
  \* ---- SessionParser.encodeWorkspacePath and decodeWorkspaceName
  workspacePath,     \* the path given to encodeWorkspacePath
  encodedName,       \* its result
  decodedPath,       \* the result of decodeWorkspaceName(encodedName)
  codecStatus,       \* "idle", "encoded" or "decoded"
  \* ---- HeuristicTracker.shouldExcludeFile on one pattern
  globPattern,       \* the exclusion pattern of the last test
  globPath,          \* the file path of the last test
  globResult,        \* whether the pattern's regex matched the path
  globTested,        \* whether a test has been made
  \* ---- DiffTracker.showDiff
  showCalls,         \* the showDiff calls made: change and position in the call
  tempFiles,         \* the files of globalStorageUri: file name -> content
  diffEditors,       \* the diff editors opened: call, before and after contents
  \* ---- the host of LiveDiffTracker
  quiet              \* whether the host has made its last setEnabled(false) or
                     \* reset() call, and the timers and showDiff calls made
                     \* up to then

liveVars == <<lastSeenChanges, pendingDiffs, isEnabled, delay, timers,
              showDiffCalls, errorMessages, disabledKeys>>

heuristicVars == <<fileSnapshots, hIsEnabled, pendingChanges, fileWatcher,
                   liveWatchers, watchersCreated, heuristicChanges, hTimers>>

extractVars == <<currentEvent, eventIndex, itemIndex, extractedChanges,
                 extractStatus>>

decodeVars == <<sessionFile, lines, events, decodeStatus>>

locateVars == <<projectsDirs, workspaceDirs, dirEntries, newestFile, locatorResult>>

recentVars == <<sessionChanges, recentChanges>>

codecVars == <<workspacePath, encodedName, decodedPath, codecStatus>>

globVars == <<globPattern, globPath, globResult, globTested>>

showVars == <<showCalls, tempFiles, diffEditors>>

moreVars == <<globVars, showVars, quiet>>

parserVars == <<extractVars, decodeVars, locateVars, recentVars, codecVars,
                moreVars>>

vars == <<liveVars, heuristicVars, parserVars>>

(***************************************************************************)
(* Helpers                                                                 *)
(***************************************************************************)
Range(f) == { f[x] : x \in DOMAIN f }

EmptyMap == [x \in {} |-> 0]

MapSet(m, k, v) == [x \in DOMAIN m \cup {k} |-> IF x = k THEN v ELSE m[x]]

MapDelete(m, k) == [x \in DOMAIN m \ {k} |-> m[x]]

(***************************************************************************)
(* LiveDiffTracker                                                         *)
(***************************************************************************)
getChangeKey(change) ==
  change.sessionId \o ":" \o change.messageUuid \o ":" \o change.filePath

\* clearTimeout(id): an armed timer never fires; any other timer is untouched
clearTimeout(ts, id) ==
  [ts EXCEPT ![id].st = IF @ = "armed" THEN "cancelled" ELSE @]

RECURSIVE clearAll(_, _)
clearAll(ts, ids) ==
  IF ids = {} THEN ts
  ELSE LET id == CHOOSE x \in ids : TRUE
       IN clearAll(clearTimeout(ts, id), ids \ {id})

\* the membership test left out: every presented record counts as new
IsNewChange_NoTest(seen, changeKey) == TRUE

\* the condition of the `if` inside the loop of processChanges
IsNewChange(seen, changeKey) == changeKey \notin seen

\* the loop of processChanges: the new changes, in order, and the seen-set after
RECURSIVE IdentifyNew(_, _, _)
IdentifyNew(changes, seen, newChanges) ==
  IF changes = <<>> THEN [newChanges |-> newChanges, seen |-> seen]
  ELSE LET change == Head(changes)
           changeKey == getChangeKey(change)
       IN IF IsNewChange(seen, changeKey)
          THEN IdentifyNew(Tail(changes), seen \cup {changeKey},
                           Append(newChanges, change))
          ELSE IdentifyNew(Tail(changes), seen, newChanges)

\* scheduleDiff(change) on the pair (pendingDiffs, timers)
scheduleDiff(st, change) ==
  LET changeKey == getChangeKey(change)
      cleared == IF changeKey \in DOMAIN st.pending
                 THEN clearTimeout(st.timers, st.pending[changeKey])
                 ELSE st.timers
      timeout == Len(cleared) + 1
  IN [timers  |-> Append(cleared, [key |-> changeKey, change |-> change,
                                   st |-> "armed"]),
      pending |-> MapSet(st.pending, changeKey, timeout)]

RECURSIVE scheduleAll(_, _)
scheduleAll(st, newChanges) ==
  IF newChanges = <<>> THEN st
  ELSE scheduleAll(scheduleDiff(st, Head(newChanges)), Tail(newChanges))

\* a variant that leaves out the tests of isEnabled and of the empty list
ReturnsEarly_SuppressedOnly(changes, skipOnStartup) == skipOnStartup

\* whether processChanges returns before its loop
ReturnsEarly(changes, skipOnStartup) ==
  \/ ~isEnabled
  \/ Len(changes) = 0
  \/ skipOnStartup

\* what a processChanges call, made in the current state, leaves in
\* lastSeenChanges, timers and pendingDiffs
ProcessResult(changes, skipOnStartup) ==
  IF ReturnsEarly(changes, skipOnStartup)
  THEN [seen |-> lastSeenChanges, timers |-> timers, pending |-> pendingDiffs]
  ELSE LET r == IdentifyNew(changes, lastSeenChanges, <<>>)
           s == scheduleAll([timers |-> timers, pending |-> pendingDiffs],
                            r.newChanges)
       IN [seen |-> r.seen, timers |-> s.timers, pending |-> s.pending]

processChanges(changes, skipOnStartup) ==
  LET post == ProcessResult(changes, skipOnStartup)
  IN /\ Len(post.timers) <= MaxTimers
     /\ lastSeenChanges' = post.seen
     /\ timers' = post.timers
     /\ pendingDiffs' = post.pending
     /\ UNCHANGED <<isEnabled, delay, showDiffCalls, errorMessages, disabledKeys>>

\* the keys of pendingDiffs whose timer has not fired yet
ArmedPendingKeys ==
  { k \in DOMAIN pendingDiffs : timers[pendingDiffs[k]].st = "armed" }

\* disabling also forgets what was seen
SeenAfterSetEnabled_Clears(enabled) == IF enabled THEN lastSeenChanges ELSE {}

\* what setEnabled(enabled) leaves in lastSeenChanges
SeenAfterSetEnabled(enabled) == lastSeenChanges

setEnabled(enabled) ==
  /\ isEnabled' = enabled
  /\ lastSeenChanges' = SeenAfterSetEnabled(enabled)
  /\ IF enabled
     THEN UNCHANGED <<pendingDiffs, timers, disabledKeys>>
     ELSE /\ timers' = clearAll(timers, Range(pendingDiffs))
          /\ pendingDiffs' = EmptyMap
          /\ disabledKeys' = disabledKeys \cup ArmedPendingKeys
  /\ UNCHANGED <<delay, showDiffCalls, errorMessages>>

setDelay(d) ==
  /\ delay' = d
  /\ UNCHANGED <<lastSeenChanges, pendingDiffs, isEnabled, timers,
                 showDiffCalls, errorMessages, disabledKeys>>

reset ==
  /\ lastSeenChanges' = {}
  /\ timers' = clearAll(timers, Range(pendingDiffs))
  /\ pendingDiffs' = EmptyMap
  /\ disabledKeys' = {}
  /\ UNCHANGED <<isEnabled, delay, showDiffCalls, errorMessages>>

dispose == reset

\* The host runs a timer's callback some time after its delay has passed.
\* Delays are not measured here: any timer that is armed may be the next to
\* fire, which covers every order the delays in force allow.
\* This is the callback of scheduleDiff up to
\* `await this.diffTracker.showDiff(change)`: showDiff has been invoked.
TimerFires(id) ==
  /\ timers[id].st = "armed"
  /\ timers' = [timers EXCEPT ![id].st = "running"]
  /\ showDiffCalls' = showDiffCalls \cup {id}
  /\ UNCHANGED <<lastSeenChanges, pendingDiffs, isEnabled, delay,
                 errorMessages, disabledKeys>>

\* the delete placed at the end of `try` instead of in `finally`
PendingAfterDelivery_TryOnly(changeKey, ok) ==
  IF ok THEN MapDelete(pendingDiffs, changeKey) ELSE pendingDiffs

\* pendingDiffs after the `finally` of the timer callback
PendingAfterDelivery(changeKey, ok) == MapDelete(pendingDiffs, changeKey)

\* the rest of the callback: showDiff resolved (ok) or rejected (~ok)
DeliveryEnds(id, ok) ==
  /\ timers[id].st = "running"
  /\ timers' = [timers EXCEPT ![id].st = IF ok THEN "done" ELSE "failed"]
  /\ errorMessages' = IF ok THEN errorMessages ELSE errorMessages + 1
  /\ pendingDiffs' = PendingAfterDelivery(timers[id].key, ok)
  /\ UNCHANGED <<lastSeenChanges, isEnabled, delay, showDiffCalls,
                 disabledKeys>>


(***************************************************************************)
(* HeuristicTracker                                                        *)
(*                                                                         *)
(* Paths and glob patterns are sequences of characters, so that the        *)
(* pattern matching of shouldExcludeFile is computed as the code does it.  *)
(***************************************************************************)
\* workspaceFolders[0].uri.fsPath
WorkspaceRoot == <<"/", "w">>

\* The documents and files of the model.  A document of scheme "file" is a
\* file of the workspace that the watcher's pattern matches.
Docs ==
  { [name |-> "a.ts", scheme |-> "file", isUntitled |-> FALSE,
     fsPath |-> <<"/", "w", "/", "a", ".", "t", "s">>],
    [name |-> "b.js", scheme |-> "file", isUntitled |-> FALSE,
     fsPath |-> <<"/", "w", "/", "o", "u", "t", "/", "b", ".", "j", "s">>],
    [name |-> "d.ts", scheme |-> "file", isUntitled |-> FALSE,
     fsPath |-> <<"/", "w", "/", "x", "/", "y", "/", "z", "/", "d", ".", "t", "s">>],
    [name |-> "Untitled-1", scheme |-> "untitled", isUntitled |-> TRUE,
     fsPath |-> <<"U", "n", "t", "i", "t", "l", "e", "d", "-", "1">>] }

\* the files the watcher reports
FileDocs == { d \in Docs : d.scheme = "file" }

\* a file two directories below the workspace root
NestedFile ==
  [name |-> "c.ts", scheme |-> "file", isUntitled |-> FALSE,
   fsPath |-> <<"/", "w", "/", "x", "/", "y", "/", "c", ".", "t", "s">>]

\* the files whose changes the watcher reports
WatchedFiles == FileDocs \cup {NestedFile}

\* the documents the user opens, saves and closes in an editor
EditorDocs == { d \in Docs : d.name \in {"a.ts", "b.js", "Untitled-1"} }

\* doc.uri.toString()
Uri(doc) == doc.scheme \o ":" \o doc.name

\* the texts a document or file may hold
Contents == {"", "A", "B"}

\* openTextDocument rejected
Rejected == "<rejected>"

\* the size ceiling of the change path, in characters
SizeCeiling == 10000

\* a text of SizeCeiling + 1 characters
Oversized == "<oversized>"

\* content.length
ContentLength(content) ==
  IF content = Oversized THEN SizeCeiling + 1 ELSE Len(content)

\* claudeCodeDiff.heuristicExcludePatterns
ExcludePatterns == << <<"*", "*", "/", "o", "u", "t", "/", "*", "*">> >>

\* String.prototype.replace(/from/g, to)
RECURSIVE ReplaceAll(_, _, _)
ReplaceAll(str, from, to) ==
  IF Len(str) < Len(from) THEN str
  ELSE IF SubSeq(str, 1, Len(from)) = from
       THEN to \o ReplaceAll(SubSeq(str, Len(from) + 1, Len(str)), from, to)
       ELSE <<Head(str)>> \o ReplaceAll(Tail(str), from, to)

\* the three replace calls of shouldExcludeFile, in the order of the code
GlobToRegexSource(pattern) ==
  ReplaceAll(
    ReplaceAll(
      ReplaceAll(pattern, <<"*", "*">>, <<".", "*">>),
      <<"*">>, <<"[", "^", "/", "]", "*">>),
    <<"?">>, <<"[", "^", "/", "]">>)

\* new RegExp(source): the atoms of the source, each with its `*` if it has one.
\* An atom is `.`, the class `[^/]` or a literal character.
RECURSIVE ParseRegex(_)
ParseRegex(src) ==
  IF src = <<>> THEN <<>>
  ELSE LET isClass == Len(src) >= 4 /\ SubSeq(src, 1, 4) = <<"[", "^", "/", "]">>
           atom == IF isClass THEN [kind |-> "notSlash", ch |-> ""]
                   ELSE IF Head(src) = "." THEN [kind |-> "any", ch |-> ""]
                   ELSE [kind |-> "lit", ch |-> Head(src)]
           rest == IF isClass THEN SubSeq(src, 5, Len(src)) ELSE Tail(src)
           star == rest # <<>> /\ Head(rest) = "*"
       IN <<[atom |-> atom, star |-> star]>>
            \o ParseRegex(IF star THEN Tail(rest) ELSE rest)

AtomMatches(atom, ch) ==
  CASE atom.kind = "any" -> TRUE
    [] atom.kind = "notSlash" -> ch # "/"
    [] OTHER -> ch = atom.ch

\* whether the regex matches a prefix of str
RECURSIVE MatchesHere(_, _)
MatchesHere(re, str) ==
  IF re = <<>> THEN TRUE
  ELSE IF Head(re).star
       THEN \/ MatchesHere(Tail(re), str)
            \/ /\ str # <<>>
               /\ AtomMatches(Head(re).atom, Head(str))
               /\ MatchesHere(re, Tail(str))
       ELSE /\ str # <<>>
            /\ AtomMatches(Head(re).atom, Head(str))
            /\ MatchesHere(Tail(re), Tail(str))

\* RegExp.prototype.test: a match anywhere in str
RegexTest(re, str) ==
  \E i \in 1..(Len(str) + 1) : MatchesHere(re, SubSeq(str, i, Len(str)))

\* filePath.replace(/\\/g, '/')
NormalizePath(filePath) == [i \in DOMAIN filePath |->
                              IF filePath[i] = "\\" THEN "/" ELSE filePath[i]]

\* a variant that excludes nothing
shouldExcludeFile_Never(filePath) == FALSE

\* the body of the loop: whether the pattern's regex matches the path
PatternMatches(pattern, filePath) ==
  RegexTest(ParseRegex(GlobToRegexSource(pattern)), NormalizePath(filePath))

shouldExcludeFile(filePath) ==
  \E i \in DOMAIN ExcludePatterns : PatternMatches(ExcludePatterns[i], filePath)

\* a variant that counts the directories of the relative path only
pathDepth_Directories(fsPath) ==
  Cardinality({ i \in (Len(WorkspaceRoot) + 2)..Len(fsPath) : fsPath[i] = "/" })

\* path.relative(workspaceRoot, fsPath).split(path.sep).length, for a path
\* below the workspace root
pathDepth(fsPath) ==
  LET relativePath == SubSeq(fsPath, Len(WorkspaceRoot) + 2, Len(fsPath))
  IN Cardinality({ i \in DOMAIN relativePath : relativePath[i] = "/" }) + 1

\* a variant that stores the change without the heuristic flag
HeuristicChange_Unflagged(fileName, beforeContent, afterContent) ==
  [sessionId |-> "heuristic", toolName |-> "Heuristic", filePath |-> fileName,
   oldContent |-> beforeContent, newContent |-> afterContent,
   isHeuristic |-> FALSE]

\* the FileChange that showHeuristicDiff stores
HeuristicChange(fileName, beforeContent, afterContent) ==
  [sessionId |-> "heuristic", toolName |-> "Heuristic", filePath |-> fileName,
   oldContent |-> beforeContent, newContent |-> afterContent,
   isHeuristic |-> TRUE]

\* setTimeout(callback, this.delay)
hSetTimeout(ts, kind, doc, original, content) ==
  Append(ts, [kind |-> kind, doc |-> Uri(doc), original |-> original,
              content |-> content, st |-> "armed"])

\* the sets of visible editors captureInitialSnapshots may find: none, or one
\* document with any text
VisibleEditors ==
  {EmptyMap} \cup { [x \in {d} |-> c] : d \in EditorDocs, c \in Contents \ {""} }

\* captureInitialSnapshots, on the editors `visible` (document -> text)
captureInitialSnapshots(snapshots, visible) ==
  LET kept == { d \in DOMAIN visible :
                  d.scheme = "file" /\ ~shouldExcludeFile(d.fsPath) }
  IN [u \in DOMAIN snapshots \cup { Uri(d) : d \in kept } |->
        IF \E d \in kept : Uri(d) = u
        THEN visible[CHOOSE d \in kept : Uri(d) = u]
        ELSE snapshots[u]]

\* HeuristicTracker.setEnabled(enabled), with the editors `visible` on screen
hSetEnabled(enabled, visible) ==
  /\ hIsEnabled' = enabled
  /\ IF enabled
     THEN /\ watchersCreated < MaxWatchers
          /\ fileSnapshots' = captureInitialSnapshots(fileSnapshots, visible)
          \* createFileWatcher: the watcher held before is not disposed
          /\ watchersCreated' = watchersCreated + 1
          /\ fileWatcher' = watchersCreated + 1
          /\ liveWatchers' = liveWatchers \cup {watchersCreated + 1}
          /\ UNCHANGED <<pendingChanges, hTimers>>
     ELSE /\ visible = EmptyMap
          /\ fileSnapshots' = EmptyMap
          /\ hTimers' = clearAll(hTimers, Range(pendingChanges))
          /\ pendingChanges' = EmptyMap
          /\ liveWatchers' = liveWatchers \ {fileWatcher}
          /\ fileWatcher' = 0
          /\ UNCHANGED watchersCreated
  /\ UNCHANGED heuristicChanges

\* the early returns of the onDidCreate handler
CreateSkipped(doc) == ~hIsEnabled \/ shouldExcludeFile(doc.fsPath)

\* fileWatcher.onDidCreate: a live watcher reports a new file
onDidCreate(doc) ==
  /\ liveWatchers # {}
  /\ IF CreateSkipped(doc)
     THEN UNCHANGED hTimers
     ELSE /\ Len(hTimers) < MaxHeuristicTimers
          /\ hTimers' = hSetTimeout(hTimers, "create", doc, "", "")
  /\ UNCHANGED <<fileSnapshots, hIsEnabled, pendingChanges, fileWatcher,
                 liveWatchers, watchersCreated, heuristicChanges>>

\* the early returns of the onDidChange handler
ChangeSkipped(doc) ==
  \/ ~hIsEnabled
  \/ shouldExcludeFile(doc.fsPath)
  \/ Uri(doc) \in DOMAIN fileSnapshots
  \/ pathDepth(doc.fsPath) > 3

\* fileWatcher.onDidChange: a live watcher reports a changed file
onDidChange(doc) ==
  /\ liveWatchers # {}
  /\ IF ChangeSkipped(doc)
     THEN UNCHANGED hTimers
     ELSE /\ Len(hTimers) < MaxHeuristicTimers
          /\ hTimers' = hSetTimeout(hTimers, "change", doc, "", "")
  /\ UNCHANGED <<fileSnapshots, hIsEnabled, pendingChanges, fileWatcher,
                 liveWatchers, watchersCreated, heuristicChanges>>

\* onWillSaveTextDocument(event), event.document = doc
onWillSaveTextDocument(doc) ==
  /\ IF ~hIsEnabled \/ doc.scheme # "file" \/ shouldExcludeFile(doc.fsPath)
     THEN UNCHANGED <<hTimers, pendingChanges>>
     ELSE LET uri == Uri(doc)
              originalContent == IF uri \in DOMAIN fileSnapshots
                                   /\ fileSnapshots[uri] # ""
                                 THEN fileSnapshots[uri] ELSE ""
              cleared == IF uri \in DOMAIN pendingChanges
                         THEN clearTimeout(hTimers, pendingChanges[uri])
                         ELSE hTimers
          IN /\ Len(hTimers) < MaxHeuristicTimers
             /\ hTimers' = hSetTimeout(cleared, "save", doc, originalContent, "")
             /\ pendingChanges' = MapSet(pendingChanges, uri, Len(cleared) + 1)
  /\ UNCHANGED <<fileSnapshots, hIsEnabled, fileWatcher, liveWatchers,
                 watchersCreated, heuristicChanges>>

\* the early returns of onDidOpenTextDocument
OpenIgnored(doc) ==
  ~hIsEnabled \/ doc.scheme # "file" \/ shouldExcludeFile(doc.fsPath)

\* a variant that treats every document opened for the first time as new
onDidOpenTextDocument_FirstOpenIsNew(doc, content) ==
  /\ IF OpenIgnored(doc)
     THEN UNCHANGED <<hTimers, fileSnapshots>>
     ELSE LET uri == Uri(doc)
              isNotInSnapshots == uri \notin DOMAIN fileSnapshots
          IN /\ fileSnapshots' = MapSet(fileSnapshots, uri, content)
             /\ IF isNotInSnapshots /\ ContentLength(content) > 0
                THEN /\ Len(hTimers) < MaxHeuristicTimers
                     /\ hTimers' = hSetTimeout(hTimers, "untitled", doc, "", content)
                ELSE UNCHANGED hTimers
  /\ UNCHANGED <<hIsEnabled, pendingChanges, fileWatcher, liveWatchers,
                 watchersCreated, heuristicChanges>>

\* onDidOpenTextDocument(doc), doc.getText() = content
onDidOpenTextDocument(doc, content) ==
  /\ IF OpenIgnored(doc)
     THEN UNCHANGED <<hTimers, fileSnapshots>>
     ELSE LET uri == Uri(doc)
              isNotInSnapshots == uri \notin DOMAIN fileSnapshots
          IN /\ fileSnapshots' = MapSet(fileSnapshots, uri, content)
             /\ IF isNotInSnapshots /\ ContentLength(content) > 0 /\ doc.isUntitled
                THEN /\ Len(hTimers) < MaxHeuristicTimers
                     /\ hTimers' = hSetTimeout(hTimers, "untitled", doc, "", content)
                ELSE UNCHANGED hTimers
  /\ UNCHANGED <<hIsEnabled, pendingChanges, fileWatcher, liveWatchers,
                 watchersCreated, heuristicChanges>>

\* onDidCloseTextDocument(doc)
onDidCloseTextDocument(doc) ==
  /\ IF ~hIsEnabled
     THEN UNCHANGED <<fileSnapshots, hTimers, pendingChanges>>
     ELSE LET uri == Uri(doc)
          IN /\ fileSnapshots' = MapDelete(fileSnapshots, uri)
             /\ IF uri \in DOMAIN pendingChanges
                THEN /\ hTimers' = clearTimeout(hTimers, pendingChanges[uri])
                     /\ pendingChanges' = MapDelete(pendingChanges, uri)
                ELSE UNCHANGED <<hTimers, pendingChanges>>
  /\ UNCHANGED <<hIsEnabled, fileWatcher, liveWatchers, watchersCreated,
                 heuristicChanges>>

\* A timer callback starts.  The callbacks of the watcher and of will-save
\* await openTextDocument first; the callback of an untitled document calls
\* showHeuristicDiff at once.
hTimerFires(id) ==
  /\ hTimers[id].st = "armed"
  /\ IF hTimers[id].kind = "untitled"
     THEN /\ hTimers' = [hTimers EXCEPT ![id].st = "done"]
          /\ heuristicChanges' =
               Append(heuristicChanges,
                      HeuristicChange(hTimers[id].doc, "", hTimers[id].content))
     ELSE /\ hTimers' = [hTimers EXCEPT ![id].st = "opening"]
          /\ UNCHANGED heuristicChanges
  /\ UNCHANGED <<fileSnapshots, hIsEnabled, pendingChanges, fileWatcher,
                 liveWatchers, watchersCreated>>

\* a variant of the comparison that records every text the file is found with
Records_Always(kind, original, content) == TRUE

\* a variant that applies the size ceiling of the change path to new files too
Records_Ceiling(kind, original, content) ==
  CASE kind \in {"create", "change"} ->
         ContentLength(content) > 0 /\ ContentLength(content) < SizeCeiling
    [] OTHER -> original # content

\* whether the callback of a timer of this kind records text `content`
Records(kind, original, content) ==
  CASE kind = "create" -> ContentLength(content) > 0
    [] kind = "change" -> ContentLength(content) > 0 /\ ContentLength(content) < SizeCeiling
    [] OTHER -> original # content

\* openTextDocument settles with the text `content`, or Rejected, and the
\* callback runs to its end
hOpenSettles(id, content) ==
  LET t == hTimers[id]
      recorded == content # Rejected /\ Records(t.kind, t.original, content)
  IN /\ t.st = "opening"
     /\ hTimers' = [hTimers EXCEPT ![id].st = "done"]
     /\ IF recorded
        THEN /\ fileSnapshots' = MapSet(fileSnapshots, t.doc, content)
             /\ heuristicChanges' =
                  Append(heuristicChanges,
                         HeuristicChange(t.doc, t.original, content))
        ELSE UNCHANGED <<fileSnapshots, heuristicChanges>>
     /\ pendingChanges' = IF t.kind = "save"
                          THEN MapDelete(pendingChanges, t.doc)
                          ELSE pendingChanges
     /\ UNCHANGED <<hIsEnabled, fileWatcher, liveWatchers, watchersCreated>>

\* HeuristicTracker.reset()
hReset ==
  /\ fileSnapshots' = EmptyMap
  /\ hTimers' = clearAll(hTimers, Range(pendingChanges))
  /\ pendingChanges' = EmptyMap
  /\ UNCHANGED <<hIsEnabled, fileWatcher, liveWatchers, watchersCreated,
                 heuristicChanges>>

\* HeuristicTracker.dispose()
hDispose ==
  /\ fileSnapshots' = EmptyMap
  /\ hTimers' = clearAll(hTimers, Range(pendingChanges))
  /\ pendingChanges' = EmptyMap
  /\ liveWatchers' = liveWatchers \ {fileWatcher}
  /\ fileWatcher' = 0
  /\ UNCHANGED <<hIsEnabled, watchersCreated, heuristicChanges>>

(***************************************************************************)
(* SessionParser.extractFileChanges (src/src/parsers/session-parser.ts)    *)
(*                                                                         *)
(* The call is followed through its loops: one step per event of the       *)
(* outer loop and one step per content item of the inner loop.  Events and *)
(* items are whatever JSON.parse returned, so any field may be missing.    *)
(* A missing string field holds Undefined.  Shell commands are sequences   *)
(* of characters, so that the pattern match is computed.                   *)
(***************************************************************************)
Undefined == "<undefined>"

\* file paths are sequences of characters; this one stands for a missing
\* file_path
UndefinedPath == <<Undefined>>

\* a file of the workspace
SomePath == <<"/", "a", ".", "t", "s">>

\* item.input: `present` is FALSE when the item carries no input at all
ToolInput(file_path, old_string, new_string, content, command) ==
  [present |-> TRUE, file_path |-> file_path, old_string |-> old_string,
   new_string |-> new_string, content |-> content, command |-> command]

\* values of input.command
NoCommand == [kind |-> "undefined", chars |-> <<>>]
NumberCommand == [kind |-> "number", chars |-> <<>>]
StringCommand(chars) == [kind |-> "string", chars |-> chars]

NoInput ==
  [present |-> FALSE, file_path |-> UndefinedPath, old_string |-> Undefined,
   new_string |-> Undefined, content |-> Undefined, command |-> NoCommand]

ToolUse(name, input) == [type |-> "tool_use", name |-> name, input |-> input]

\* the shell commands of the model
ShellCommands ==
  { <<"r", "m", " ", "a", " ", "b">>,
    <<"r", "m", " ", "-", "r", "f", " ", ".", "/", "b">>,
    <<"l", "s", " ", "a">>,
    <<"r", "m">>,
    <<"r", "m", " ", "-", "r", "f">>,
    <<"r", "m", " ", "'", "a", "'", " ", "-", "v">>,
    <<"r", "m", " ", "'", "'">>,
    <<"x", "r", "m", " ", "a">>,
    <<"r", "m", " ", "a", "\n", "l", "s", " ", "b">> }

\* the content items of the model
EditItems ==
  { ToolUse("Edit", NoInput) }
  \cup { ToolUse("Edit", ToolInput(fp, "O", "N", Undefined, NoCommand)) :
           fp \in {UndefinedPath, <<>>} }
  \cup { ToolUse("Edit", ToolInput(SomePath, c[1], c[2], Undefined, NoCommand)) :
           c \in { <<"O", "N">>, <<"", "">>, <<Undefined, Undefined>>,
                   <<Undefined, "N">> } }

WriteItems ==
  { ToolUse("Write", NoInput) }
  \cup { ToolUse("Write", ToolInput(fp, Undefined, Undefined, "X", NoCommand)) :
           fp \in {UndefinedPath, <<>>} }
  \cup { ToolUse("Write", ToolInput(SomePath, Undefined, Undefined, c, NoCommand)) :
           c \in {"X", "", Undefined} }

BashItems ==
  { ToolUse("Bash", NoInput) }
  \cup { ToolUse("Bash", ToolInput(UndefinedPath, Undefined, Undefined, Undefined, c)) :
           c \in {NoCommand, NumberCommand}
                   \cup { StringCommand(chars) : chars \in ShellCommands } }

OtherItems ==
  { [type |-> "text", name |-> Undefined, input |-> NoInput],
    [type |-> "tool_result", name |-> Undefined, input |-> NoInput],
    ToolUse("Read", ToolInput(SomePath, Undefined, Undefined, Undefined, NoCommand)) }

Items == EditItems \cup WriteItems \cup BashItems \cup OtherItems

\* the events of the model; `content` tells what event.message.content is.
\* The event with uuid u1 carries the later timestamp.
SessionEvents ==
  { e \in [type : {"assistant", "user"}, content : {"array", "string", "absent"},
           sessionId : {"s1"}, uuid : {"u1", "u2"}, parentUuid : {"p0"},
           timestamp : {"T1", "T2"}, gitBranch : {"main"}] :
      e.timestamp = "T1" <=> e.uuid = "u2" }

NoEvent ==
  [type |-> Undefined, content |-> "absent", sessionId |-> Undefined,
   uuid |-> Undefined, parentUuid |-> Undefined, timestamp |-> Undefined,
   gitBranch |-> Undefined]

\* \s and the line terminators of a JavaScript regular expression
Whitespace == {" ", "\t", "\n", "\r"}
LineTerminators == {"\n", "\r"}

\* \w, as far as the commands of the model use it
WordChars == {"a", "b", "f", "l", "m", "r", "s", "v", "x", "_"}

\* the length of the longest run of characters of `set` that starts at p
RunLength(str, p, set) ==
  CHOOSE n \in 0..(Len(str) + 1 - p) :
    /\ \A k \in 0..(n - 1) : str[p + k] \in set
    /\ (p + n <= Len(str)) => str[p + n] \notin set

AllChars(str) == { str[i] : i \in DOMAIN str }

\* the length of the run of flag letters of (?:-[rf]+\s+)? at p, 0 for none
FlagRun(str, p) ==
  IF p <= Len(str) /\ str[p] = "-" THEN RunLength(str, p + 1, {"r", "f"}) ELSE 0

\* the length of the whitespace that follows a run of `flags` flag letters
FlagSpace(str, p, flags) ==
  IF flags > 0 THEN RunLength(str, p + 1 + flags, Whitespace) ELSE 0

\* the places where the group (.+) may start when /\brm/ matched at i, each
\* with its rank in the order in which the regular expression engine tries
\* them: \s+ greedy (ws characters at most), the optional flag group taken
\* first (`flags` letters at p), its \s+ greedy (w characters at most)
RankedStarts(str, i, ws, p, flags, w) ==
  LET withGroup == { [rank |-> w - h, q |-> p + 1 + flags + h] : h \in 1..w }
      withoutGroup == { [rank |-> w + (ws - j), q |-> i + 2 + j] : j \in 1..ws }
  IN { c \in withGroup \cup withoutGroup :
         c.q <= Len(str) /\ str[c.q] \notin LineTerminators }

StartsAfterFlags(str, i, ws, p, flags) ==
  RankedStarts(str, i, ws, p, flags, FlagSpace(str, p, flags))

StartsAfterSpace(str, i, ws) ==
  StartsAfterFlags(str, i, ws, i + 2 + ws, FlagRun(str, i + 2 + ws))

CaptureStarts(str, i) ==
  StartsAfterSpace(str, i, RunLength(str, i + 2, Whitespace))

\* whether /\brm\s+(?:-[rf]+\s+)?(.+)/ matches at position i
RmMatchesAt(str, i) ==
  /\ i + 1 <= Len(str)
  /\ str[i] = "r" /\ str[i + 1] = "m"
  /\ (i = 1 \/ str[i - 1] \notin WordChars)
  /\ CaptureStarts(str, i) # {}

\* the start the engine takes first
FirstStart(starts) == CHOOSE c \in starts : \A d \in starts : c.rank <= d.rank

\* (.+) from q: the rest of the line
RestOfLine(str, q) ==
  SubSeq(str, q, q + RunLength(str, q, AllChars(str) \ LineTerminators) - 1)

\* the positions where the pattern matches
MatchPositions(command) == { i \in DOMAIN command : RmMatchesAt(command, i) }

\* the match at the leftmost of `positions`
LeftmostMatch(command, positions) ==
  IF positions = {} THEN [matched |-> FALSE, group |-> <<>>]
  ELSE [matched |-> TRUE,
        group |-> RestOfLine(command,
                    FirstStart(CaptureStarts(command,
                      CHOOSE m \in positions : \A n \in positions : m <= n)).q)]

\* command.match(/\brm\s+(?:-[rf]+\s+)?(.+)/): the group (.+) of the
\* leftmost match, [matched |-> FALSE] for null
rmMatch(command) == LeftmostMatch(command, MatchPositions(command))

\* str.split(/\s+/); the pieces are numbered as split returns them
RECURSIVE SplitWhitespace(_)
SplitWhitespace(str) ==
  IF \A i \in DOMAIN str : str[i] \notin Whitespace THEN <<str>>
  ELSE LET i == CHOOSE m \in DOMAIN str :
                  /\ str[m] \in Whitespace
                  /\ \A n \in 1..(m - 1) : str[n] \notin Whitespace
           ws == RunLength(str, i, Whitespace)
       IN <<SubSeq(str, 1, i - 1)>>
            \o SplitWhitespace(SubSeq(str, i + ws, Len(str)))

\* filePath.trim().replace(/['"]/g, '')
cleanPath(filePath) == SelectSeq(filePath, LAMBDA c : c \notin {"'", "\""})

\* a variant of the filter that keeps flags
KeepsPiece_Flags(p) == p # <<>>

\* whether the filter of line 244 keeps the piece p
KeepsPiece(p) == p # <<>> /\ Head(p) # "-"

\* a variant that leaves out an empty content
EditWriteChange_DropsEmpty(event, toolName, input) ==
  [sessionId |-> event.sessionId, timestamp |-> event.timestamp,
   toolName |-> toolName, filePath |-> input.file_path,
   gitBranch |-> event.gitBranch, messageUuid |-> event.uuid,
   parentUuid |-> event.parentUuid,
   oldContent |-> IF toolName = "Edit" THEN input.old_string ELSE Undefined,
   newContent |-> IF toolName = "Edit" THEN input.new_string
                  ELSE IF input.content = "" THEN Undefined ELSE input.content,
   isDeleted |-> FALSE]

\* the record of an Edit or Write item (lines 216-231)
EditWriteChange(event, toolName, input) ==
  [sessionId |-> event.sessionId, timestamp |-> event.timestamp,
   toolName |-> toolName, filePath |-> input.file_path,
   gitBranch |-> event.gitBranch, messageUuid |-> event.uuid,
   parentUuid |-> event.parentUuid,
   oldContent |-> IF toolName = "Edit" THEN input.old_string ELSE Undefined,
   newContent |-> IF toolName = "Edit" THEN input.new_string ELSE input.content,
   isDeleted |-> FALSE]

\* the record of a deleted path (lines 253-262); its filePath is kept as
\* the sequence of characters it was cut from the command as
DeleteChange(event, path) ==
  [sessionId |-> event.sessionId, timestamp |-> event.timestamp,
   toolName |-> "Delete", filePath |-> path,
   gitBranch |-> event.gitBranch, messageUuid |-> event.uuid,
   parentUuid |-> event.parentUuid,
   oldContent |-> Undefined, newContent |-> Undefined, isDeleted |-> TRUE]

\* the cleaned paths of the pieces that yield a record (lines 242-250)
KeptPieces(pieces) ==
  SelectSeq([i \in DOMAIN SelectSeq(pieces, KeepsPiece) |->
               cleanPath(SelectSeq(pieces, KeepsPiece)[i])],
            LAMBDA p : p # <<>>)

\* the same, for the result of command.match
DeletedPaths(m) ==
  IF m.matched THEN KeptPieces(SplitWhitespace(m.group)) ELSE <<>>

\* the records of a Bash item, for the paths `kept` of its command
DeleteChanges(event, kept) ==
  [k \in DOMAIN kept |-> DeleteChange(event, kept[k])]

\* whether the body of the inner loop throws a TypeError on this item:
\* input.file_path and input.command read a property of undefined, and
\* command.match is not a function when command is a truthy non-string
ItemThrows(item) ==
  /\ item.type = "tool_use"
  /\ \/ item.name \in {"Edit", "Write", "Bash"} /\ ~item.input.present
     \/ item.name = "Bash" /\ item.input.command.kind = "number"

\* a variant that skips only an absent file_path
NoFilePath_AbsentOnly(input) == input.file_path = UndefinedPath

\* !input.file_path
NoFilePath(input) == input.file_path \in {UndefinedPath, <<>>}

\* the records the body of the inner loop pushes for this item
ItemChanges(event, item) ==
  IF item.type # "tool_use" THEN <<>>
  ELSE IF item.name \in {"Edit", "Write"}
       THEN IF NoFilePath(item.input) THEN <<>>
            ELSE <<EditWriteChange(event, item.name, item.input)>>
       ELSE IF item.name = "Bash"
            THEN DeleteChanges(event,
                               DeletedPaths(rmMatch(item.input.command.chars)))
            ELSE <<>>

\* a variant that puts the new records in front
Push_InFront(changes, new) == new \o changes

\* changes.push(change), for each of `new` in turn
Push(changes, new) == changes \o new

\* the outer loop takes the next event
NextEvent(event) ==
  /\ extractStatus = "running"
  /\ eventIndex + itemIndex < MaxIterations
  /\ currentEvent' = event
  /\ eventIndex' = eventIndex + 1
  /\ itemIndex' = 0
  /\ UNCHANGED <<extractedChanges, extractStatus>>

\* a variant that runs the inner loop for events of every type
HasItems_AnyType ==
  /\ eventIndex > 0
  /\ currentEvent.content = "array"

\* whether the inner loop runs over items of the current event
HasItems ==
  /\ eventIndex > 0
  /\ currentEvent.type = "assistant"
  /\ currentEvent.content = "array"

\* the inner loop takes the next content item of the current event
NextItem(item) ==
  /\ extractStatus = "running"
  /\ HasItems
  /\ eventIndex + itemIndex < MaxIterations
  /\ itemIndex' = itemIndex + 1
  /\ IF ItemThrows(item)
     THEN /\ extractStatus' = "threw"
          /\ UNCHANGED extractedChanges
     ELSE /\ extractedChanges' =
               Push(extractedChanges, ItemChanges(currentEvent, item))
          /\ UNCHANGED extractStatus
  /\ UNCHANGED <<currentEvent, eventIndex>>

\* both loops are through: return changes
ReturnChanges ==
  /\ extractStatus = "running"
  /\ extractStatus' = "returned"
  /\ UNCHANGED <<currentEvent, eventIndex, itemIndex, extractedChanges>>

(***************************************************************************)
(* SessionParser.parseSessionFile and parseLine                            *)
(*                                                                         *)
(* The file is a sequence of characters.  JSON.parse is computed for the   *)
(* part of JSON the lines of the model use: objects, strings without       *)
(* escapes, unsigned integers and the three literals.                      *)
(***************************************************************************)
\* the lines a session file is made of: events, an event cut short by a
\* concurrent append, blank lines, a line ending in a carriage return, and
\* text that is not JSON
LineTexts ==
  { <<"{", "\"", "t", "\"", ":", "1", "}">>,
    <<"{", "\"", "t", "\"", ":", "{", "}", ",", " ", "\"", "u", "\"", ":",
      "\"", "a", "\"", "}">>,
    <<"{", "}", "\r">>,
    <<"{", "\"", "t", "\"", ":">>,
    <<"{", "\"", "t", "\"", ":", "1", "}", "x">>,
    <<>>,
    <<" ">>,
    <<"x">> }

\* array.join(separator)
RECURSIVE Join(_, _)
Join(texts, separator) ==
  IF texts = <<>> THEN <<>>
  ELSE IF Len(texts) = 1 THEN Head(texts)
  ELSE Head(texts) \o separator \o Join(Tail(texts), separator)

\* the session files of the model: up to MaxLines lines joined by newlines
SessionFiles ==
  { Join(texts, <<"\n">>) :
      texts \in UNION { [1..n -> LineTexts] : n \in 0..MaxLines } }

\* content.split('\n')
RECURSIVE SplitLines(_)
SplitLines(text) ==
  IF \A i \in DOMAIN text : text[i] # "\n" THEN <<text>>
  ELSE <<SubSeq(text, 1, RunLength(text, 1, AllChars(text) \ {"\n"}))>>
         \o SplitLines(SubSeq(text, RunLength(text, 1, AllChars(text) \ {"\n"}) + 2,
                              Len(text)))

\* String.prototype.trim
RECURSIVE TrimEnd(_)
TrimEnd(str) ==
  IF str # <<>> /\ str[Len(str)] \in Whitespace
  THEN TrimEnd(SubSeq(str, 1, Len(str) - 1)) ELSE str

TrimStart(str) == SubSeq(str, RunLength(str, 1, Whitespace) + 1, Len(str))

trim(str) == TrimEnd(TrimStart(str))

\* JSON values: kind is "object", "string", "number" or "literal"; chars is
\* the text of a scalar; members are the [key, value] pairs of an object
JsonValue(kind, chars, members) ==
  [kind |-> kind, chars |-> chars, members |-> members]

\* JSON.parse threw a SyntaxError
ParseFailure(rest) ==
  [ok |-> FALSE, value |-> JsonValue("none", <<>>, <<>>), rest |-> rest]

Parsed(value, rest) == [ok |-> TRUE, value |-> value, rest |-> rest]

JsonWhitespace == {" ", "\t", "\n", "\r"}
Digits == {"0", "1", "2", "3", "4", "5", "6", "7", "8", "9"}
Literals == { <<"n", "u", "l", "l">>, <<"t", "r", "u", "e">>,
              <<"f", "a", "l", "s", "e">> }

SkipWhitespace(str) == SubSeq(str, RunLength(str, 1, JsonWhitespace) + 1, Len(str))

StartsWith(str, prefix) ==
  Len(str) >= Len(prefix) /\ SubSeq(str, 1, Len(prefix)) = prefix

\* a string: str begins with its opening quote
ParseString(str) ==
  IF \E i \in 2..Len(str) : str[i] = "\""
  THEN Parsed(JsonValue("string",
                        SubSeq(str, 2, RunLength(str, 2, AllChars(str) \ {"\""}) + 1),
                        <<>>),
              SubSeq(str, RunLength(str, 2, AllChars(str) \ {"\""}) + 3, Len(str)))
  ELSE ParseFailure(str)

\* a number: str begins with a digit
ParseNumber(str) ==
  Parsed(JsonValue("number", SubSeq(str, 1, RunLength(str, 1, Digits)), <<>>),
         SubSeq(str, RunLength(str, 1, Digits) + 1, Len(str)))

ParseLiteral(str) ==
  IF \E l \in Literals : StartsWith(str, l)
  THEN Parsed(JsonValue("literal", CHOOSE l \in Literals : StartsWith(str, l), <<>>),
              SubSeq(str, Len(CHOOSE l \in Literals : StartsWith(str, l)) + 1,
                     Len(str)))
  ELSE ParseFailure(str)

RECURSIVE ParseValue(_)
RECURSIVE ParseMembers(_, _)
RECURSIVE AfterKey(_, _)
RECURSIVE AfterMember(_, _, _)

\* a value, at the start of str
ParseValue(str) ==
  IF str = <<>> THEN ParseFailure(str)
  ELSE IF Head(str) = "{" THEN ParseMembers(SkipWhitespace(Tail(str)), <<>>)
  ELSE IF Head(str) = "\"" THEN ParseString(str)
  ELSE IF Head(str) \in Digits THEN ParseNumber(str)
  ELSE ParseLiteral(str)

\* the members of an object and its closing brace; `members` are those read
ParseMembers(str, members) ==
  IF str = <<>> THEN ParseFailure(str)
  ELSE IF Head(str) = "}" /\ members = <<>>
       THEN Parsed(JsonValue("object", <<>>, members), Tail(str))
  ELSE IF Head(str) = "\"" THEN AfterKey(ParseString(str), members)
  ELSE ParseFailure(str)

\* the colon and the value that follow the key
AfterKey(key, members) ==
  IF ~key.ok \/ ~StartsWith(SkipWhitespace(key.rest), <<":">>)
  THEN ParseFailure(key.rest)
  ELSE AfterMember(key.value.chars,
                   ParseValue(SkipWhitespace(Tail(SkipWhitespace(key.rest)))),
                   members)

\* the comma or the closing brace that follows a member
AfterMember(key, value, members) ==
  IF ~value.ok THEN value
  ELSE IF StartsWith(SkipWhitespace(value.rest), <<",">>)
       THEN ParseMembers(SkipWhitespace(Tail(SkipWhitespace(value.rest))),
                         Append(members, [key |-> key, value |-> value.value]))
  ELSE IF StartsWith(SkipWhitespace(value.rest), <<"}">>)
       THEN Parsed(JsonValue("object", <<>>,
                             Append(members, [key |-> key, value |-> value.value])),
                   Tail(SkipWhitespace(value.rest)))
  ELSE ParseFailure(value.rest)

\* the whole text must be one value
WholeText(result) ==
  IF result.ok /\ SkipWhitespace(result.rest) = <<>> THEN result
  ELSE ParseFailure(result.rest)

\* JSON.parse(text); ok is FALSE when it throws
JSONparse(text) == WholeText(ParseValue(SkipWhitespace(text)))

\* parseLine: the parsed value, or null where ok is FALSE
parseLine(line) == JSONparse(line)

\* `if (event)`: null, false, 0 and the empty string are falsy
Truthy(result) ==
  /\ result.ok
  /\ CASE result.value.kind = "literal" -> result.value.chars = <<"t", "r", "u", "e">>
       [] result.value.kind = "number" ->
            \E i \in DOMAIN result.value.chars : result.value.chars[i] # "0"
       [] result.value.kind = "string" -> result.value.chars # <<>>
       [] OTHER -> TRUE

\* a variant of the loop that gives up at the first line that fails to parse
RestOfLines_StopAtFailure(remaining, result) ==
  IF result.ok THEN Tail(remaining) ELSE <<>>

\* the lines the loop still has to take after this one
RestOfLines(remaining, result) == Tail(remaining)

\* parseSessionFile is called on a file with this text: readFileSync, split
\* and filter
ReadLines(text) ==
  /\ decodeStatus = "idle"
  /\ sessionFile' = text
  /\ lines' = SelectSeq(SplitLines(text), LAMBDA line : trim(line) # <<>>)
  /\ decodeStatus' = "looping"
  /\ UNCHANGED events

\* the loop is through one line, whose parseLine gave `result`
LineDone(result) ==
  /\ events' = IF Truthy(result) THEN Append(events, result.value) ELSE events
  /\ lines' = RestOfLines(lines, result)

\* one iteration of the loop over the lines
ParseNextLine ==
  /\ decodeStatus = "looping"
  /\ lines # <<>>
  /\ LineDone(parseLine(Head(lines)))
  /\ UNCHANGED <<sessionFile, decodeStatus>>

\* return events
ReturnEvents ==
  /\ decodeStatus = "looping"
  /\ lines = <<>>
  /\ decodeStatus' = "returned"
  /\ UNCHANGED <<sessionFile, lines, events>>

(***************************************************************************)
(* SessionParser: locating the session files of the workspace              *)
(*                                                                         *)
(* The file system is what the calls of fs see: whether each instance's    *)
(* projects directory and the workspace's directory under it exist and can *)
(* be listed, and, for the workspace directory the lookup returns, whether *)
(* each entry exists and can be read.  claudeInstancePaths is left at its  *)
(* default, the empty list.                                                *)
(***************************************************************************)
\* defaultClaudeInstances, in search order
ClaudeInstances == <<".claude", ".claude-gpt5">>

\* the `limit` parameter's default
DefaultLimit == 10

DirStatus == {"missing", "readable", "unreadable"}

\* a file holding tool uses that extractFileChanges turns into changes, one
\* holding none, one that exists and cannot be read, and no file
FileStatus == {"absent", "noChanges", "hasChanges", "unreadable"}

EntryNames ==
  { [base |-> "s1", ext |-> ".jsonl"], [base |-> "s2", ext |-> ".jsonl"],
    [base |-> "notes", ext |-> ".txt"] }

\* fs.existsSync: true for what exists, readable or not
existsSync(status) == status \notin {"missing", "absent"}

\* fs.statSync(file).mtimeMs
mtimeMs(file) == IF file = newestFile THEN 2 ELSE 1

findClaudeInstances ==
  SelectSeq(ClaudeInstances, LAMBDA i : existsSync(projectsDirs[i]))

\* the first loop of getCurrentWorkspaceSessionDir
WithWorkspaceDir(instances) ==
  SelectSeq(instances, LAMBDA i : existsSync(workspaceDirs[i]))

\* the listing loop: fs.readdirSync(projectsDir) throws on a directory that
\* cannot be listed
ListingThrows(instances) ==
  \E k \in DOMAIN instances : projectsDirs[instances[k]] = "unreadable"

NoDir == ""

DirLookup(instances, found) ==
  IF found # <<>> THEN [threw |-> FALSE, dir |-> Head(found)]
  ELSE [threw |-> ListingThrows(instances), dir |-> NoDir]

\* the instance whose workspace directory is returned, NoDir for null
getCurrentWorkspaceSessionDir ==
  DirLookup(findClaudeInstances, WithWorkspaceDir(findClaudeInstances))

\* fs.readdirSync lists the entries that exist, in the directory's order
EntryOrder ==
  << [base |-> "notes", ext |-> ".txt"], [base |-> "s1", ext |-> ".jsonl"],
     [base |-> "s2", ext |-> ".jsonl"] >>

readdirSync == SelectSeq(EntryOrder, LAMBDA e : existsSync(dirEntries[e]))

\* the comparator of the sort: negative when a is the more recent
compareMtime(a, b) == mtimeMs(b) - mtimeMs(a)

RECURSIVE InsertSorted(_, _)
InsertSorted(sorted, file) ==
  IF sorted = <<>> THEN <<file>>
  ELSE IF compareMtime(file, Head(sorted)) < 0 THEN <<file>> \o sorted
  ELSE <<Head(sorted)>> \o InsertSorted(Tail(sorted), file)

\* array.sort(comparator): a stable sort
RECURSIVE SortByMtime(_)
SortByMtime(files) ==
  IF files = <<>> THEN <<>>
  ELSE InsertSorted(SortByMtime(SubSeq(files, 1, Len(files) - 1)), files[Len(files)])

getSessionFiles(workspaceDir) ==
  IF ~existsSync(workspaceDirs[workspaceDir])
  THEN [threw |-> FALSE, files |-> <<>>]
  ELSE IF workspaceDirs[workspaceDir] = "unreadable"
  THEN [threw |-> TRUE, files |-> <<>>]
  ELSE [threw |-> FALSE,
        files |-> SortByMtime(SelectSeq(readdirSync, LAMBDA e : e.ext = ".jsonl"))]

\* null, where a file is expected
NoFile == [base |-> "", ext |-> ""]

MostRecentOf(listing) ==
  [threw |-> listing.threw,
   file |-> IF listing.threw \/ listing.files = <<>> THEN NoFile
            ELSE Head(listing.files)]

MostRecentIn(lookup) ==
  IF lookup.threw THEN [threw |-> TRUE, file |-> NoFile]
  ELSE IF lookup.dir = NoDir THEN [threw |-> FALSE, file |-> NoFile]
  ELSE MostRecentOf(getSessionFiles(lookup.dir))

\* the most recent session file of the workspace, NoFile for null
getMostRecentSessionFile == MostRecentIn(getCurrentWorkspaceSessionDir)

\* extractFileChanges(parseSessionFile(file)): whether it throws and whether
\* it returns any change
SessionChanges(file) ==
  IF ~existsSync(dirEntries[file]) THEN [threw |-> FALSE, changes |-> FALSE]
  ELSE IF dirEntries[file] = "unreadable" THEN [threw |-> TRUE, changes |-> FALSE]
  ELSE [threw |-> FALSE, changes |-> dirEntries[file] = "hasChanges"]

Min(a, b) == IF a < b THEN a ELSE b

LocatorThrew(call) == [call |-> call, threw |-> TRUE, sessions |-> {}]

LocatorReturned(call, sessions) ==
  [call |-> call, threw |-> FALSE, sessions |-> sessions]

ChangesOfFile(recent) ==
  IF recent.threw THEN LocatorThrew("getCurrentSessionChanges")
  ELSE IF recent.file = NoFile THEN LocatorReturned("getCurrentSessionChanges", {})
  ELSE IF SessionChanges(recent.file).threw
  THEN LocatorThrew("getCurrentSessionChanges")
  ELSE LocatorReturned("getCurrentSessionChanges",
                       IF SessionChanges(recent.file).changes
                       THEN {recent.file.base} ELSE {})

\* the result of getCurrentSessionChanges: the sessions whose changes it returns
getCurrentSessionChanges == ChangesOfFile(getMostRecentSessionFile)

AllFromFiles(listing, limit) ==
  IF listing.threw THEN LocatorThrew("getAllSessionChanges")
  ELSE IF \E i \in 1..Min(Len(listing.files), limit) :
            SessionChanges(listing.files[i]).threw
  THEN LocatorThrew("getAllSessionChanges")
  ELSE LocatorReturned("getAllSessionChanges",
                       { listing.files[i].base :
                           i \in { j \in 1..Min(Len(listing.files), limit) :
                                     SessionChanges(listing.files[j]).changes } })

AllFromDir(lookup, limit) ==
  IF lookup.threw THEN LocatorThrew("getAllSessionChanges")
  ELSE IF lookup.dir = NoDir THEN LocatorReturned("getAllSessionChanges", {})
  ELSE AllFromFiles(getSessionFiles(lookup.dir), limit)

\* the keys of the map getAllSessionChanges returns
getAllSessionChanges(limit) == AllFromDir(getCurrentWorkspaceSessionDir, limit)

locateFs == <<projectsDirs, workspaceDirs, dirEntries, newestFile>>

\* the environment creates, removes or changes the mode of a projects directory
SetProjectsDir(instance, status) ==
  /\ projectsDirs' = [projectsDirs EXCEPT ![instance] = status]
  /\ workspaceDirs' = IF status = "missing"
                      THEN [workspaceDirs EXCEPT ![instance] = "missing"]
                      ELSE workspaceDirs
  /\ UNCHANGED <<dirEntries, newestFile, locatorResult>>

\* Claude Code creates the workspace's directory, or its mode changes
SetWorkspaceDir(instance, status) ==
  /\ existsSync(projectsDirs[instance])
  /\ workspaceDirs' = [workspaceDirs EXCEPT ![instance] = status]
  /\ UNCHANGED <<projectsDirs, dirEntries, newestFile, locatorResult>>

\* an entry of the workspace directory is written, removed or made unreadable;
\* a write makes it the most recent
SetEntry(entry, status) ==
  /\ \E k \in DOMAIN ClaudeInstances : existsSync(workspaceDirs[ClaudeInstances[k]])
  /\ dirEntries' = [dirEntries EXCEPT ![entry] = status]
  /\ newestFile' = IF status \in {"noChanges", "hasChanges"} THEN entry ELSE newestFile
  /\ UNCHANGED <<projectsDirs, workspaceDirs, locatorResult>>

CallGetCurrentSessionChanges ==
  /\ locatorResult' = getCurrentSessionChanges
  /\ UNCHANGED locateFs

CallGetAllSessionChanges ==
  /\ locatorResult' = getAllSessionChanges(DefaultLimit)
  /\ UNCHANGED locateFs

(***************************************************************************)
(* SessionParser.getRecentChanges                                          *)
(***************************************************************************)
\* the changes of the session, told apart by tool and by position
SessionChange(toolName, position) == [toolName |-> toolName, position |-> position]

\* Array.prototype.slice(start, end), for 0 <= start and 0 <= end
slice(array, start, end) == SubSeq(array, start + 1, Min(end, Len(array)))

\* getRecentChanges, on the changes getCurrentSessionChanges returns
getRecentChanges(changes, limit) == slice(changes, 0, limit)

\* Claude Code appends an event whose tool use extractFileChanges turns into
\* one more change of the current session
SessionGrows(toolName) ==
  /\ Len(sessionChanges) < MaxSessionChanges
  /\ sessionChanges' =
       Append(sessionChanges, SessionChange(toolName, Len(sessionChanges) + 1))
  /\ UNCHANGED recentChanges

CallGetRecentChanges(limit) ==
  /\ recentChanges' = getRecentChanges(sessionChanges, limit)
  /\ UNCHANGED sessionChanges

(***************************************************************************)
(* SessionParser.encodeWorkspacePath and decodeWorkspaceName               *)
(***************************************************************************)
PathChars == {"/", "a", "b", "-"}

\* the absolute POSIX paths of up to MaxPathLength characters, as VS Code
\* gives them: no empty segment and no trailing separator
WorkspacePaths ==
  { p \in UNION { [1..n -> PathChars] : n \in 2..MaxPathLength } :
      /\ p[1] = "/"
      /\ p[Len(p)] # "/"
      /\ \A i \in 1..(Len(p) - 1) : ~(p[i] = "/" /\ p[i + 1] = "/") }

encodeWorkspacePath(path) ==
  ReplaceAll(ReplaceAll(ReplaceAll(path, <<"\\">>, <<"/">>), <<"/">>, <<"-">>),
             <<":">>, <<"-">>)

decodeWorkspaceName(encoded) == ReplaceAll(encoded, <<"-">>, <<"/">>)

Encode(path) ==
  /\ codecStatus = "idle"
  /\ workspacePath' = path
  /\ encodedName' = encodeWorkspacePath(path)
  /\ codecStatus' = "encoded"
  /\ UNCHANGED decodedPath

Decode ==
  /\ codecStatus = "encoded"
  /\ decodedPath' = decodeWorkspaceName(encodedName)
  /\ codecStatus' = "decoded"
  /\ UNCHANGED <<workspacePath, encodedName>>

(***************************************************************************)
(* Specifications                                                          *)
(***************************************************************************)
Init ==
  /\ lastSeenChanges = {}
  /\ pendingDiffs = EmptyMap
  /\ isEnabled = FALSE
  /\ delay = 1000
  /\ timers = <<>>
  /\ showDiffCalls = {}
  /\ errorMessages = 0
  /\ disabledKeys = {}
  /\ fileSnapshots = EmptyMap
  /\ hIsEnabled = FALSE
  /\ pendingChanges = EmptyMap
  /\ fileWatcher = 0
  /\ liveWatchers = {}
  /\ watchersCreated = 0
  /\ heuristicChanges = <<>>
  /\ hTimers = <<>>
  /\ currentEvent = NoEvent
  /\ eventIndex = 0
  /\ itemIndex = 0
  /\ extractedChanges = <<>>
  /\ extractStatus = "running"
  /\ sessionFile = <<>>
  /\ lines = <<>>
  /\ events = <<>>
  /\ decodeStatus = "idle"
  /\ projectsDirs = [k \in Range(ClaudeInstances) |-> "missing"]
  /\ workspaceDirs = [k \in Range(ClaudeInstances) |-> "missing"]
  /\ dirEntries = [e \in EntryNames |-> "absent"]
  /\ newestFile = [base |-> "s1", ext |-> ".jsonl"]
  /\ locatorResult = LocatorReturned("none", {})
  /\ sessionChanges = <<>>
  /\ recentChanges = <<>>
  /\ workspacePath = <<>>
  /\ encodedName = <<>>
  /\ decodedPath = <<>>
  /\ codecStatus = "idle"
  /\ globPattern = <<>>
  /\ globPath = <<>>
  /\ globResult = FALSE
  /\ globTested = FALSE
  /\ showCalls = <<>>
  /\ tempFiles = EmptyMap
  /\ diffEditors = <<>>
  /\ quiet = [on |-> FALSE, timers |-> 0, calls |-> {}]

NextNoReset ==
  \/ \E changes \in Batches, skipOnStartup \in BOOLEAN :
       processChanges(changes, skipOnStartup) /\ UNCHANGED <<heuristicVars, parserVars>>
  \/ \E enabled \in BOOLEAN : setEnabled(enabled) /\ UNCHANGED <<heuristicVars, parserVars>>
  \/ \E d \in Delays : setDelay(d) /\ UNCHANGED <<heuristicVars, parserVars>>
  \/ \E id \in DOMAIN timers : TimerFires(id) /\ UNCHANGED <<heuristicVars, parserVars>>
  \/ \E id \in DOMAIN timers, ok \in BOOLEAN :
       DeliveryEnds(id, ok) /\ UNCHANGED <<heuristicVars, parserVars>>

Next ==
  \/ NextNoReset
  \/ reset /\ UNCHANGED <<heuristicVars, parserVars>>
  \/ dispose /\ UNCHANGED <<heuristicVars, parserVars>>

HeuristicNext ==
  \/ \E enabled \in BOOLEAN, visible \in VisibleEditors :
       hSetEnabled(enabled, visible) /\ UNCHANGED <<liveVars, parserVars>>
  \/ \E doc \in FileDocs : onDidCreate(doc) /\ UNCHANGED <<liveVars, parserVars>>
  \/ \E doc \in FileDocs : onDidChange(doc) /\ UNCHANGED <<liveVars, parserVars>>
  \/ \E doc \in EditorDocs : onWillSaveTextDocument(doc) /\ UNCHANGED <<liveVars, parserVars>>
  \/ \E doc \in EditorDocs, content \in Contents :
       onDidOpenTextDocument(doc, content) /\ UNCHANGED <<liveVars, parserVars>>
  \/ \E doc \in EditorDocs : onDidCloseTextDocument(doc) /\ UNCHANGED <<liveVars, parserVars>>
  \/ \E id \in DOMAIN hTimers : hTimerFires(id) /\ UNCHANGED <<liveVars, parserVars>>
  \/ \E id \in DOMAIN hTimers, content \in Contents \cup {Rejected} :
       hOpenSettles(id, content) /\ UNCHANGED <<liveVars, parserVars>>
  \/ hReset /\ UNCHANGED <<liveVars, parserVars>>
  \/ hDispose /\ UNCHANGED <<liveVars, parserVars>>

\* LiveDiffTracker with every public method
Spec == Init /\ [][Next]_vars

\* from here on the host calls neither setEnabled(false) nor reset()
HostGoesQuiet ==
  /\ ~quiet.on
  /\ quiet' = [on |-> TRUE, timers |-> Len(timers), calls |-> showDiffCalls]
  /\ UNCHANGED <<liveVars, heuristicVars, extractVars, decodeVars, locateVars,
                 recentVars, codecVars, globVars, showVars>>

DeliverNext ==
  \/ \E changes \in Batches, skipOnStartup \in BOOLEAN :
       processChanges(changes, skipOnStartup) /\ UNCHANGED <<heuristicVars, parserVars>>
  \/ setEnabled(TRUE) /\ UNCHANGED <<heuristicVars, parserVars>>
  \/ \E id \in DOMAIN timers : TimerFires(id) /\ UNCHANGED <<heuristicVars, parserVars>>
  \/ \E id \in DOMAIN timers, ok \in BOOLEAN :
       DeliveryEnds(id, ok) /\ UNCHANGED <<heuristicVars, parserVars>>
  \/ ~quiet.on /\ setEnabled(FALSE) /\ UNCHANGED <<heuristicVars, parserVars>>
  \/ ~quiet.on /\ reset /\ UNCHANGED <<heuristicVars, parserVars>>
  \/ HostGoesQuiet

\* LiveDiffTracker in a run whose setEnabled(false) and reset() calls all come
\* before some point
SpecDeliver == Init /\ [][DeliverNext]_vars

\* the host runs the callback of every armed timer, and every showDiff in
\* flight settles
SpecDeliverFair ==
  /\ SpecDeliver
  /\ \A id \in 1..MaxTimers :
       /\ WF_vars(id \in DOMAIN timers /\ TimerFires(id)
                    /\ UNCHANGED <<heuristicVars, parserVars>>)
       /\ WF_vars(id \in DOMAIN timers /\ (\E ok \in BOOLEAN : DeliveryEnds(id, ok))
                    /\ UNCHANGED <<heuristicVars, parserVars>>)

\* LiveDiffTracker in a run that never calls reset() or dispose()
SpecNoReset == Init /\ [][NextNoReset]_vars

\* HeuristicTracker with its handlers, its timers and the host's events
SpecHeuristic == Init /\ [][HeuristicNext]_vars

DetectNext ==
  \/ \E enabled \in BOOLEAN, visible \in VisibleEditors :
       hSetEnabled(enabled, visible) /\ UNCHANGED <<liveVars, parserVars>>
  \/ \E doc \in FileDocs :
       /\ Len(hTimers) < MaxDetectTimers
       /\ onDidCreate(doc) /\ UNCHANGED <<liveVars, parserVars>>
  \/ \E doc \in FileDocs :
       /\ Len(hTimers) < MaxDetectTimers
       /\ onDidChange(doc) /\ UNCHANGED <<liveVars, parserVars>>
  \/ \E doc \in EditorDocs :
       /\ Len(hTimers) < MaxDetectTimers
       /\ onWillSaveTextDocument(doc) /\ UNCHANGED <<liveVars, parserVars>>
  \/ \E doc \in EditorDocs, content \in Contents :
       /\ Len(hTimers) < MaxDetectTimers
       /\ onDidOpenTextDocument(doc, content) /\ UNCHANGED <<liveVars, parserVars>>
  \/ \E doc \in EditorDocs : onDidCloseTextDocument(doc) /\ UNCHANGED <<liveVars, parserVars>>
  \/ \E id \in DOMAIN hTimers : hTimerFires(id) /\ UNCHANGED <<liveVars, parserVars>>
  \/ \E id \in DOMAIN hTimers, content \in Contents \cup {Oversized, Rejected} :
       hOpenSettles(id, content) /\ UNCHANGED <<liveVars, parserVars>>
  \/ hReset /\ UNCHANGED <<liveVars, parserVars>>
  \/ hDispose /\ UNCHANGED <<liveVars, parserVars>>

\* HeuristicTracker with every handler, where a file may also be found with
\* more than SizeCeiling characters, in a run that sets at most
\* MaxDetectTimers timers
SpecDetect == Init /\ [][DetectNext]_vars

SaveNext ==
  \/ \E enabled \in BOOLEAN, visible \in VisibleEditors :
       hSetEnabled(enabled, visible) /\ UNCHANGED <<liveVars, parserVars>>
  \/ \E doc \in EditorDocs :
       /\ Len(hTimers) < MaxSaveTimers
       /\ onWillSaveTextDocument(doc) /\ UNCHANGED <<liveVars, parserVars>>
  \/ \E doc \in EditorDocs, content \in Contents :
       /\ Len(hTimers) < MaxSaveTimers
       /\ onDidOpenTextDocument(doc, content) /\ UNCHANGED <<liveVars, parserVars>>
  \/ \E doc \in EditorDocs : onDidCloseTextDocument(doc) /\ UNCHANGED <<liveVars, parserVars>>
  \/ \E id \in DOMAIN hTimers : hTimerFires(id) /\ UNCHANGED <<liveVars, parserVars>>
  \/ \E id \in DOMAIN hTimers, content \in Contents \cup {Rejected} :
       hOpenSettles(id, content) /\ UNCHANGED <<liveVars, parserVars>>
  \/ hReset /\ UNCHANGED <<liveVars, parserVars>>
  \/ hDispose /\ UNCHANGED <<liveVars, parserVars>>

\* HeuristicTracker with the editor's events only (the file watcher reports
\* nothing), in a run that sets at most MaxSaveTimers timers
SpecSave == Init /\ [][SaveNext]_vars

\* the document that is saved again and again
SavedDoc == CHOOSE d \in EditorDocs : d.name = "a.ts"

SaveAgainNext ==
  \/ \E visible \in VisibleEditors :
       /\ ~hIsEnabled
       /\ hSetEnabled(TRUE, visible) /\ UNCHANGED <<liveVars, parserVars>>
  \/ /\ Len(hTimers) < MaxSavesOfOne
     /\ onWillSaveTextDocument(SavedDoc) /\ UNCHANGED <<liveVars, parserVars>>
  \/ \E id \in DOMAIN hTimers : hTimerFires(id) /\ UNCHANGED <<liveVars, parserVars>>
  \/ \E id \in DOMAIN hTimers, content \in Contents \cup {Rejected} :
       hOpenSettles(id, content) /\ UNCHANGED <<liveVars, parserVars>>

\* HeuristicTracker enabled once, then one document saved up to MaxSavesOfOne
\* times with no open, close, disable or reset
SpecSaveAgain == Init /\ [][SaveAgainNext]_vars

WatchNext ==
  \/ \E enabled \in BOOLEAN, visible \in VisibleEditors :
       hSetEnabled(enabled, visible) /\ UNCHANGED <<liveVars, parserVars>>
  \/ \E doc \in WatchedFiles :
       /\ Len(hTimers) < MaxWatchTimers
       /\ onDidChange(doc) /\ UNCHANGED <<liveVars, parserVars>>
  \/ \E doc \in EditorDocs, content \in Contents :
       /\ Len(hTimers) < MaxWatchTimers
       /\ onDidOpenTextDocument(doc, content) /\ UNCHANGED <<liveVars, parserVars>>
  \/ \E id \in DOMAIN hTimers : hTimerFires(id) /\ UNCHANGED <<liveVars, parserVars>>
  \/ \E id \in DOMAIN hTimers, content \in Contents \cup {Rejected} :
       hOpenSettles(id, content) /\ UNCHANGED <<liveVars, parserVars>>
  \/ hReset /\ UNCHANGED <<liveVars, parserVars>>

\* HeuristicTracker with the watcher's change notifications and the editor's
\* open events, in a run that sets at most MaxWatchTimers timers
SpecWatch == Init /\ [][WatchNext]_vars

ExtractNext ==
  \/ \E event \in SessionEvents :
       NextEvent(event) /\ UNCHANGED <<liveVars, heuristicVars, moreVars, decodeVars, locateVars, recentVars, codecVars>>
  \/ \E item \in Items : NextItem(item) /\ UNCHANGED <<liveVars, heuristicVars, moreVars, decodeVars, locateVars, recentVars, codecVars>>
  \/ ReturnChanges /\ UNCHANGED <<liveVars, heuristicVars, moreVars, decodeVars, locateVars, recentVars, codecVars>>

\* one call of SessionParser.extractFileChanges on any list of events
SpecExtract == Init /\ [][ExtractNext]_vars

DecodeNext ==
  \/ \E text \in SessionFiles :
       ReadLines(text) /\ UNCHANGED <<liveVars, heuristicVars, moreVars, extractVars, locateVars, recentVars, codecVars>>
  \/ ParseNextLine /\ UNCHANGED <<liveVars, heuristicVars, moreVars, extractVars, locateVars, recentVars, codecVars>>
  \/ ReturnEvents /\ UNCHANGED <<liveVars, heuristicVars, moreVars, extractVars, locateVars, recentVars, codecVars>>

\* one call of SessionParser.parseSessionFile on any session file
SpecDecode == Init /\ [][DecodeNext]_vars

LocateNext ==
  \/ \E instance \in Range(ClaudeInstances), status \in DirStatus :
       SetProjectsDir(instance, status)
         /\ UNCHANGED <<liveVars, heuristicVars, moreVars, extractVars, decodeVars, recentVars, codecVars>>
  \/ \E instance \in Range(ClaudeInstances), status \in DirStatus :
       SetWorkspaceDir(instance, status)
         /\ UNCHANGED <<liveVars, heuristicVars, moreVars, extractVars, decodeVars, recentVars, codecVars>>
  \/ \E entry \in EntryNames, status \in FileStatus :
       SetEntry(entry, status)
         /\ UNCHANGED <<liveVars, heuristicVars, moreVars, extractVars, decodeVars, recentVars, codecVars>>
  \/ CallGetCurrentSessionChanges
       /\ UNCHANGED <<liveVars, heuristicVars, moreVars, extractVars, decodeVars, recentVars, codecVars>>
  \/ CallGetAllSessionChanges
       /\ UNCHANGED <<liveVars, heuristicVars, moreVars, extractVars, decodeVars, recentVars, codecVars>>

\* getCurrentSessionChanges and getAllSessionChanges called on a file system
\* that changes between the calls
SpecLocate == Init /\ [][LocateNext]_vars

RecentNext ==
  \/ \E toolName \in {"Edit", "Write", "Delete"} :
       SessionGrows(toolName)
         /\ UNCHANGED <<liveVars, heuristicVars, moreVars, extractVars, decodeVars, locateVars, codecVars>>
  \/ \E limit \in 0..MaxSessionChanges :
       CallGetRecentChanges(limit)
         /\ UNCHANGED <<liveVars, heuristicVars, moreVars, extractVars, decodeVars, locateVars, codecVars>>

\* getRecentChanges called with any limit while the session grows
SpecRecent == Init /\ [][RecentNext]_vars

CodecNext ==
  \/ \E path \in WorkspacePaths :
       Encode(path)
         /\ UNCHANGED <<liveVars, heuristicVars, moreVars, extractVars, decodeVars, locateVars,
                        recentVars>>
  \/ Decode
       /\ UNCHANGED <<liveVars, heuristicVars, moreVars, extractVars, decodeVars, locateVars,
                      recentVars>>

\* a workspace path encoded to its directory name and decoded again
SpecCodec == Init /\ [][CodecNext]_vars

(***************************************************************************)
(* HeuristicTracker.shouldExcludeFile on any pattern and path              *)
(***************************************************************************)
\* the characters exclusion patterns are made of
GlobChars == {"*", "?", "a", "/"}

\* the exclusion patterns of the model
GlobPatterns ==
  UNION { [1..n -> GlobChars] : n \in 1..MaxPatternLength }

\* the characters file paths are made of
GlobPathChars == {"a", "b", "/", "\\"}

\* the file paths of the model
GlobPaths ==
  UNION { [1..n -> GlobPathChars] : n \in 0..MaxGlobPathLength }

\* shouldExcludeFile(filePath) with `pattern` as the only configured pattern
TestPattern(pattern, filePath) ==
  /\ ~globTested
  /\ globPattern' = pattern
  /\ globPath' = filePath
  /\ globResult' = PatternMatches(pattern, filePath)
  /\ globTested' = TRUE

GlobNext ==
  \E pattern \in GlobPatterns, filePath \in GlobPaths :
    TestPattern(pattern, filePath)
      /\ UNCHANGED <<liveVars, heuristicVars, extractVars, decodeVars,
                     locateVars, recentVars, codecVars, showVars, quiet>>

\* one call of shouldExcludeFile with any one pattern on any path
SpecGlob == Init /\ [][GlobNext]_vars

(***************************************************************************)
(* DiffTracker.showDiff (src/unnamed/part_000)                             *)
(*                                                                         *)
(* A call is followed from one await to the next.  Calls run interleaved:  *)
(* LiveDiffTracker's timer callbacks each await showDiff, and another      *)
(* callback may run while one is suspended.                                *)
(***************************************************************************)
\* the changes showDiff is called with; two of the files share a base name
ShownChanges ==
  { [filePath |-> f, toolName |-> "Edit", oldContent |-> c[1],
     newContent |-> c[2], isDeleted |-> FALSE] :
      f \in {"/a/x.ts", "/b/x.ts", "/a/y.ts"},
      c \in {<<"O1", "N1">>, <<"N1", "N2">>} }
  \cup { [filePath |-> "/a/x.ts", toolName |-> "Delete", oldContent |-> "",
          newContent |-> "", isDeleted |-> TRUE] }

\* path.basename(filePath)
basename(filePath) ==
  CASE filePath \in {"/a/x.ts", "/b/x.ts"} -> "x.ts"
    [] OTHER -> "y.ts"

\* the name of the temp file that holds one side of the change
TempName(side, change) == side \o "-" \o basename(change.filePath)

\* createTempFile(content, filename): writeFile on globalStorageUri/filename
createTempFile(files, content, filename) ==
  MapSet(files, filename, content)

\* showDiff(change) up to its first await
CallShowDiff(change) ==
  /\ Len(showCalls) < MaxShowCalls
  /\ showCalls' = Append(showCalls,
                         [change |-> change,
                          pc |-> IF change.isDeleted \/ change.toolName = "Delete"
                                 THEN "deleted" ELSE "before"])
  /\ UNCHANGED <<tempFiles, diffEditors>>

\* showDeletedFile: the information message is dismissed
DeletedShown(call) ==
  /\ showCalls[call].pc = "deleted"
  /\ showCalls' = [showCalls EXCEPT ![call].pc = "done"]
  /\ UNCHANGED <<tempFiles, diffEditors>>

\* the before- temp file is written
WriteBefore(call) ==
  /\ showCalls[call].pc = "before"
  /\ tempFiles' = createTempFile(tempFiles, showCalls[call].change.oldContent,
                                 TempName("before", showCalls[call].change))
  /\ showCalls' = [showCalls EXCEPT ![call].pc = "after"]
  /\ UNCHANGED diffEditors

\* the after- temp file is written
WriteAfter(call) ==
  /\ showCalls[call].pc = "after"
  /\ tempFiles' = createTempFile(tempFiles, showCalls[call].change.newContent,
                                 TempName("after", showCalls[call].change))
  /\ showCalls' = [showCalls EXCEPT ![call].pc = "diff"]
  /\ UNCHANGED diffEditors

\* vscode.diff opens the two temp files the call was given the uris of
OpenDiff(call) ==
  /\ showCalls[call].pc = "diff"
  /\ diffEditors' =
       Append(diffEditors,
              [call |-> call,
               before |-> tempFiles[TempName("before", showCalls[call].change)],
               after |-> tempFiles[TempName("after", showCalls[call].change)]])
  /\ showCalls' = [showCalls EXCEPT ![call].pc = "done"]
  /\ UNCHANGED tempFiles

ShowNext ==
  \/ \E change \in ShownChanges :
       CallShowDiff(change)
         /\ UNCHANGED <<liveVars, heuristicVars, extractVars, decodeVars,
                        locateVars, recentVars, codecVars, globVars, quiet>>
  \/ \E call \in DOMAIN showCalls :
       DeletedShown(call)
         /\ UNCHANGED <<liveVars, heuristicVars, extractVars, decodeVars,
                        locateVars, recentVars, codecVars, globVars, quiet>>
  \/ \E call \in DOMAIN showCalls :
       WriteBefore(call)
         /\ UNCHANGED <<liveVars, heuristicVars, extractVars, decodeVars,
                        locateVars, recentVars, codecVars, globVars, quiet>>
  \/ \E call \in DOMAIN showCalls :
       WriteAfter(call)
         /\ UNCHANGED <<liveVars, heuristicVars, extractVars, decodeVars,
                        locateVars, recentVars, codecVars, globVars, quiet>>
  \/ \E call \in DOMAIN showCalls :
       OpenDiff(call)
         /\ UNCHANGED <<liveVars, heuristicVars, extractVars, decodeVars,
                        locateVars, recentVars, codecVars, globVars, quiet>>

\* showDiff called for any changes, the calls interleaved at their awaits
SpecShow == Init /\ [][ShowNext]_vars

(***************************************************************************)
(* Properties of LiveDiffTracker                                           *)
(***************************************************************************)
Keys == { getChangeKey(c) : c \in Changes }

Armed == { id \in DOMAIN timers : timers[id].st = "armed" }

\* the showDiff invocations made for a change key
Delivered(k) == { id \in showDiffCalls : timers[id].key = k }

SameTriple(c, d) ==
  /\ c.sessionId = d.sessionId
  /\ c.messageUuid = d.messageUuid
  /\ c.filePath = d.filePath

\* C1: in a run without reset(), showDiff is invoked at most once for each
\* distinct (sessionId, messageUuid, filePath), however often processChanges,
\* setEnabled, setDelay run and timers expire.
C1_DeliveredAtMostOnce ==
  \A c \in Changes :
    Cardinality({ id \in showDiffCalls : SameTriple(timers[id].change, c) }) <= 1

\* a key has been delivered once, its delivery is over, every key is seen and
\* the tracker is enabled: any further processChanges call re-presents it
C1_Witness ==
  /\ isEnabled
  /\ lastSeenChanges = Keys
  /\ \E id \in showDiffCalls :
       /\ timers[id].st = "done"
       /\ Cardinality(Delivered(timers[id].key)) = 1

\* the new armed timers a processChanges call creates, given its result
NewTimers(post) == { id \in DOMAIN post.timers : id > Len(timers) }

\* C2 (as claimed): a processChanges call on an enabled tracker leaves every
\* record's key in the seen-set, with and without suppression; with
\* suppression it schedules nothing, without it one delivery per newly seen key.
C2_SeenEvenWhenSuppressed ==
  isEnabled =>
    \A changes \in Batches, skipOnStartup \in BOOLEAN :
      LET post == ProcessResult(changes, skipOnStartup)
          newKeys == { getChangeKey(changes[i]) : i \in DOMAIN changes }
                       \ lastSeenChanges
      IN /\ \A i \in DOMAIN changes : getChangeKey(changes[i]) \in post.seen
         /\ skipOnStartup => post.timers = timers
         /\ ~skipOnStartup =>
              \A k \in newKeys :
                Cardinality({ id \in NewTimers(post) :
                                /\ post.timers[id].key = k
                                /\ post.timers[id].st = "armed" }) = 1

\* C3: no step other than reset() (dispose() is reset()) removes a key from the
\* seen-set.
C3_SeenUntilReset ==
  [][reset \/ lastSeenChanges \subseteq lastSeenChanges']_vars

\* a seen key whose delivery failed, on a tracker that was disabled while
\* another delivery was pending
C3_Witness ==
  /\ ~isEnabled
  /\ disabledKeys # {}
  /\ disabledKeys \subseteq lastSeenChanges
  /\ \E id \in DOMAIN timers :
       timers[id].st = "failed" /\ timers[id].key \in lastSeenChanges

\* C4 (as claimed): setEnabled(false) leaves no scheduled delivery outstanding,
\* delivers nothing, empties the pending map and keeps the seen-set.
C4_DisableCancelsAll ==
  [][setEnabled(FALSE) =>
       /\ Armed' = {}
       /\ showDiffCalls' = showDiffCalls
       /\ pendingDiffs' = EmptyMap
       /\ lastSeenChanges' = lastSeenChanges]_vars

\* C5 (as claimed): a key whose pending delivery setEnabled(false) cancelled is
\* not delivered as long as reset() is not called.
C5_NeverDeliveredAfterDisable ==
  [][\A id \in showDiffCalls' \ showDiffCalls :
       timers[id].key \notin disabledKeys]_vars

\* C6 (as claimed): reset() empties the seen-set and the pending map, leaves no
\* scheduled delivery outstanding and delivers nothing; afterwards a
\* processChanges call on the enabled tracker marks seen and schedules every
\* record it is given.
C6_ResetCancelsAll ==
  [][reset =>
       /\ lastSeenChanges' = {}
       /\ pendingDiffs' = EmptyMap
       /\ Armed' = {}
       /\ showDiffCalls' = showDiffCalls
       /\ isEnabled' =>
            \A c \in Changes :
              LET post == ProcessResult(<<c>>, FALSE)'
              IN /\ getChangeKey(c) \in post.seen
                 /\ getChangeKey(c) \in DOMAIN post.pending
                 /\ post.timers[post.pending[getChangeKey(c)]].change = c]_vars

\* C7 (as claimed): when a delivery is scheduled for a key that still has a
\* timer that has not fired, that timer is cancelled and the pending map holds
\* the new one, so that one delivery happens for the key.
C7_LaterScheduleReplaces ==
  [][\A new \in (DOMAIN timers') \ (DOMAIN timers) :
       /\ pendingDiffs'[timers'[new].key] = new
       /\ \A old \in Armed :
            timers[old].key = timers'[new].key =>
              timers'[old].st = "cancelled"]_vars

\* C8 (as claimed): at most one outstanding timer per key, every outstanding
\* timer is the one the pending map records for its key, and its key is seen.
C8_OutstandingTimersTracked ==
  /\ \A i, j \in Armed : timers[i].key = timers[j].key => i = j
  /\ \A id \in Armed :
       /\ timers[id].key \in DOMAIN pendingDiffs
       /\ pendingDiffs[timers[id].key] = id
  /\ \A id \in Armed : timers[id].key \in lastSeenChanges
  /\ Cardinality(Armed) <= Cardinality(lastSeenChanges)

\* C9: when showDiff fails for a key, an error message is shown, the seen-set
\* is unchanged, the key leaves the pending map, every other timer and every
\* other entry of the pending map is untouched; and a timer that fires
\* invokes showDiff.
C9_FailureIsContained ==
  [][
    /\ \A id \in DOMAIN timers :
         (timers[id].st = "running" /\ timers'[id].st = "failed") =>
            /\ errorMessages' = errorMessages + 1
            /\ lastSeenChanges' = lastSeenChanges
            /\ timers[id].key \notin DOMAIN pendingDiffs'
            /\ \A k \in DOMAIN pendingDiffs \ {timers[id].key} :
                 k \in DOMAIN pendingDiffs' /\ pendingDiffs'[k] = pendingDiffs[k]
            /\ \A other \in DOMAIN timers \ {id} : timers'[other] = timers[other]
            /\ showDiffCalls' = showDiffCalls
    /\ \A fired \in Armed :
         timers'[fired].st = "running" => fired \in showDiffCalls'
  ]_vars

\* a delivery has failed while an earlier-scheduled delivery of another key is
\* still pending and armed
C9_Witness ==
  /\ errorMessages > 0
  /\ \E failed \in DOMAIN timers, other \in Armed :
       /\ timers[failed].st = "failed"
       /\ other < failed
       /\ timers[other].key # timers[failed].key
       /\ timers[other].key \in DOMAIN pendingDiffs
       /\ pendingDiffs[timers[other].key] = other
       /\ timers[failed].key \notin DOMAIN pendingDiffs

(***************************************************************************)
(* Properties of HeuristicTracker                                          *)
(***************************************************************************)
\* the snapshots stored by a step: documents whose entry is new or rewritten
SnapshotsStored ==
  { u \in DOMAIN fileSnapshots' :
      u \notin DOMAIN fileSnapshots \/ fileSnapshots'[u] # fileSnapshots[u] }

\* C10 (as claimed): from the return of setEnabled(false) until the next
\* setEnabled(true), no step appends a Heuristic record to the change list and
\* no step stores a snapshot, whatever watcher events, document events and
\* timer expirations occur.
C10_DisabledRecordsNothing ==
  [][(~hIsEnabled /\ ~hIsEnabled')
       => (heuristicChanges' = heuristicChanges /\ SnapshotsStored = {})]_vars

(***************************************************************************)
(* Properties of SessionParser.extractFileChanges                          *)
(***************************************************************************)
\* the records a step pushes
NewChanges ==
  SubSeq(extractedChanges', Len(extractedChanges) + 1, Len(extractedChanges'))

\* the whitespace-separated tokens of a text
Tokens(str) == SelectSeq(SplitWhitespace(str), LAMBDA p : p # <<>>)

\* a token without its quote characters
Unquoted(token) == SelectSeq(token, LAMBDA c : c # "'" /\ c # "\"")

\* whether `paths` are tokens of `tokens`, quotes aside, in the order of the
\* tokens
InTokenOrder(paths, tokens) ==
  \E f \in [DOMAIN paths -> DOMAIN tokens] :
    /\ \A k, l \in DOMAIN paths : k < l => f[k] < f[l]
    /\ \A k \in DOMAIN paths : paths[k] = Unquoted(tokens[f[k]])

\* C11: extractFileChanges keeps the order of its input: every step leaves
\* the records pushed so far where they are and puts the records of the item
\* it takes after them, the records of one Bash item in the order of their
\* path tokens; every new record carries the uuid and the timestamp of the
\* event being walked, whatever the timestamps of the records before it.
C11_ExtractionPreservesOrder ==
  [][/\ Len(extractedChanges') >= Len(extractedChanges)
     /\ SubSeq(extractedChanges', 1, Len(extractedChanges)) = extractedChanges
     /\ \A k \in DOMAIN NewChanges :
          /\ NewChanges[k].messageUuid = currentEvent.uuid
          /\ NewChanges[k].timestamp = currentEvent.timestamp
     /\ \A item \in BashItems :
          NextItem(item) =>
            InTokenOrder([k \in DOMAIN NewChanges |-> NewChanges[k].filePath],
                         Tokens(item.input.command.chars))]_vars

\* two paths of one rm, followed by a record of a later event that carries an
\* earlier timestamp
C11_Witness ==
  /\ Len(extractedChanges) = 3
  /\ extractedChanges[1].filePath = <<"a">>
  /\ extractedChanges[2].filePath = <<"b">>
  /\ extractedChanges[1].timestamp = "T2"
  /\ extractedChanges[2].timestamp = "T2"
  /\ extractedChanges[3].timestamp = "T1"

ClaimedDelete(event, path) ==
  [sessionId |-> event.sessionId, timestamp |-> event.timestamp,
   toolName |-> "Delete", filePath |-> path, gitBranch |-> event.gitBranch,
   messageUuid |-> event.uuid, parentUuid |-> event.parentUuid,
   oldContent |-> Undefined, newContent |-> Undefined, isDeleted |-> TRUE]

\* of these tokens, those that name a path: not a flag, and not empty once
\* the quotes are gone
PathTokens(tokens) ==
  SelectSeq(tokens, LAMBDA p : Head(p) # "-" /\ Unquoted(p) # <<>>)

\* the tokens that follow the first token rm
TokensAfterRm(tokens) ==
  IF \E t \in DOMAIN tokens : tokens[t] = <<"r", "m">>
  THEN SubSeq(tokens,
              (CHOOSE t \in DOMAIN tokens :
                 /\ tokens[t] = <<"r", "m">>
                 /\ \A u \in 1..(t - 1) : tokens[u] # <<"r", "m">>) + 1,
              Len(tokens))
  ELSE <<>>

\* one Delete record per path token
DeletesOf(event, tokens) ==
  [k \in DOMAIN PathTokens(tokens) |->
     ClaimedDelete(event, Unquoted(PathTokens(tokens)[k]))]

\* C13 (as claimed): a Bash item whose command is a string pushes exactly
\* one Delete record for each whitespace-separated token that follows rm,
\* does not begin with '-' and is not empty once trimmed and stripped of its
\* quotes; the records carry the event's uuid, parentUuid and timestamp,
\* isDeleted = true and no content; a command without rm pushes none.
C13_OneDeletePerTokenAfterRm ==
  [][\A item \in BashItems :
       (item.input.command.kind = "string" /\ NextItem(item)) =>
         NewChanges = DeletesOf(currentEvent,
                        TokensAfterRm(Tokens(item.input.command.chars)))]_vars

\* C13 (amended): the tokens that count are those of the text the pattern
\* captures, which ends with the line the paths begin on: a Bash item whose
\* command is a string pushes exactly one Delete record for each
\* whitespace-separated token of that text that does not begin with '-' and
\* is not empty once stripped of its quotes, with the event's uuid,
\* parentUuid and timestamp, isDeleted = true and no content; when the
\* pattern does not match, it pushes none.
C13_OneDeletePerTokenOnLine ==
  [][\A item \in BashItems :
       (item.input.command.kind = "string" /\ NextItem(item)) =>
         NewChanges = DeletesOf(currentEvent,
                        Tokens(rmMatch(item.input.command.chars).group))]_vars

\* one rm with two paths was walked: two Delete records of one event
C13_Witness ==
  /\ Len(extractedChanges) = 2
  /\ extractedChanges[1] = ClaimedDelete(currentEvent, <<"a">>)
  /\ extractedChanges[2] = ClaimedDelete(currentEvent, <<"b">>)

\* C14: a Write item with a file_path and content X pushes exactly one
\* record, with toolName Write, newContent X and no oldContent, for every X,
\* the empty string included.
C14_WriteKeepsContent ==
  [][\A item \in WriteItems :
       ( /\ item.input.present
         /\ item.input.file_path \notin {UndefinedPath, <<>>}
         /\ item.input.content # Undefined
         /\ NextItem(item) )
       => /\ Len(NewChanges) = 1
          /\ NewChanges[1].toolName = "Write"
          /\ NewChanges[1].filePath = item.input.file_path
          /\ NewChanges[1].newContent = item.input.content
          /\ NewChanges[1].oldContent = Undefined]_vars

\* a Write of the empty string was walked
C14_Witness ==
  \E i \in DOMAIN extractedChanges :
    /\ extractedChanges[i].toolName = "Write"
    /\ extractedChanges[i].newContent = ""
    /\ extractedChanges[i].oldContent = Undefined

\* the value of a field that a record may lack
Field(r, name, default) == IF name \in DOMAIN r THEN r[name] ELSE default

\* the four kinds of File Change Record
EditSemantics(r) ==
  /\ ~Field(r, "isHeuristic", FALSE) /\ ~Field(r, "isDeleted", FALSE)
  /\ r.oldContent # Undefined /\ r.newContent # Undefined

WriteSemantics(r) ==
  /\ ~Field(r, "isHeuristic", FALSE) /\ ~Field(r, "isDeleted", FALSE)
  /\ r.oldContent = Undefined /\ r.newContent # Undefined

DeleteSemantics(r) ==
  /\ ~Field(r, "isHeuristic", FALSE) /\ Field(r, "isDeleted", FALSE)
  /\ r.oldContent = Undefined /\ r.newContent = Undefined

HeuristicSemantics(r) == Field(r, "isHeuristic", FALSE)

ExactlyOneSemantics(r) ==
  Cardinality({ p \in { <<"Edit", EditSemantics(r)>>,
                        <<"Write", WriteSemantics(r)>>,
                        <<"Delete", DeleteSemantics(r)>>,
                        <<"Heuristic", HeuristicSemantics(r)>> } : p[2] }) = 1

\* C15 (as claimed): every record of extractFileChanges and of the heuristic
\* detector is of exactly one kind: an Edit (oldContent and newContent
\* present), a Write (newContent only), a Delete (isDeleted, no content) or
\* a Heuristic record (isHeuristic); also when an Edit item lacks old_string
\* or new_string and when a Write item lacks content.
C15_ExactlyOneSemantics ==
  /\ \A i \in DOMAIN extractedChanges : ExactlyOneSemantics(extractedChanges[i])
  /\ \A i \in DOMAIN heuristicChanges : ExactlyOneSemantics(heuristicChanges[i])

\* C17 (as claimed): extractFileChanges never raises an error, whatever the
\* events, also when an Edit, Write or Bash item carries no input and when a
\* Bash command is not a string.
C17_ExtractionNeverThrows == extractStatus # "threw"

(***************************************************************************)
(* Properties of SessionParser.parseSessionFile                            *)
(***************************************************************************)
Blank(line) == \A i \in DOMAIN line : line[i] \in Whitespace

ParsesAsJSON(line) == JSONparse(line).ok

\* the values of the non-blank lines of the text that parse, in file order
DecodableLines(text) ==
  SelectSeq(SplitLines(text), LAMBDA line : ~Blank(line) /\ ParsesAsJSON(line))

ValuesOf(texts) == [i \in DOMAIN texts |-> JSONparse(texts[i]).value]

SessionDirs ==
  SelectSeq(ClaudeInstances,
            LAMBDA i : projectsDirs[i] # "missing" /\ workspaceDirs[i] # "missing")

JsonlFiles == { e \in EntryNames : e.ext = ".jsonl" /\ dirEntries[e] # "absent" }

NoInstanceDirectory == \A i \in Range(ClaudeInstances) : projectsDirs[i] = "missing"

NoSessionDirectory == SessionDirs = <<>>

SessionDirectoryUnreadable ==
  SessionDirs # <<>> /\ workspaceDirs[Head(SessionDirs)] = "unreadable"

\* no session file, or none that can be read
NoReadableSessionFile == \A e \in JsonlFiles : dirEntries[e] = "unreadable"

\* the cases in which the locator is to come back empty-handed
NothingToRead ==
  \/ NoInstanceDirectory
  \/ NoSessionDirectory
  \/ SessionDirectoryUnreadable
  \/ NoReadableSessionFile

\* C18: getCurrentSessionChanges and getAllSessionChanges return an empty
\* result, without raising, whenever no instance directory exists, the
\* workspace's session directory does not exist, it holds no .jsonl file, or
\* the session file or directory is missing or unreadable when it is read.
C18_LocatorReturnsEmpty ==
  [][(CallGetCurrentSessionChanges \/ CallGetAllSessionChanges) /\ NothingToRead
       => ~locatorResult'.threw /\ locatorResult'.sessions = {}]_vars

(***************************************************************************)
(* Properties of HeuristicTracker's save detection                         *)
(***************************************************************************)
\* the snapshot a will-save handler captures for the document: the map's
\* entry, the empty text when there is none
CapturedSnapshot(doc) ==
  IF Uri(doc) \in DOMAIN fileSnapshots THEN fileSnapshots[Uri(doc)] ELSE ""

\* the handler of will-save acts on the document
SaveTracked(doc) ==
  hIsEnabled /\ doc.scheme = "file" /\ ~shouldExcludeFile(doc.fsPath)

\* the timer that will-save has just armed holds the snapshot of that moment
CapturesSnapshot(doc) ==
  /\ Len(hTimers') > 0
  /\ hTimers'[Len(hTimers')] =
       [kind |-> "save", doc |-> Uri(doc), original |-> CapturedSnapshot(doc),
        content |-> "", st |-> "armed"]

\* the callback of save timer id, finding the saved text, records it exactly
\* when it differs from the captured snapshot
RecordsDifference(id, saved) ==
  IF saved # hTimers[id].original
  THEN /\ heuristicChanges' =
            Append(heuristicChanges,
                   [sessionId |-> "heuristic", toolName |-> "Heuristic",
                    filePath |-> hTimers[id].doc, oldContent |-> hTimers[id].original,
                    newContent |-> saved, isHeuristic |-> TRUE])
       /\ hTimers[id].doc \in DOMAIN fileSnapshots'
       /\ fileSnapshots'[hTimers[id].doc] = saved
  ELSE UNCHANGED <<heuristicChanges, fileSnapshots>>

\* C19: a will-save of a non-excluded file document on an enabled detector
\* captures the snapshot; when its settle delay has expired and the saved
\* text is read, a Heuristic record (oldContent the captured snapshot,
\* newContent the saved text) is produced and the snapshot set to the saved
\* text if and only if the two differ; identical content produces no record
\* and leaves the snapshot unchanged.
C19_SaveRecordsDifference ==
  [][/\ \A doc \in EditorDocs :
          onWillSaveTextDocument(doc) /\ SaveTracked(doc) => CapturesSnapshot(doc)
     /\ \A id \in DOMAIN hTimers, saved \in Contents :
          hOpenSettles(id, saved) /\ hTimers[id].kind = "save"
            => RecordsDifference(id, saved)]_vars

\* a save of a.ts from "A" to "B" has been recorded and the snapshot updated
C19_Witness ==
  /\ \E id \in DOMAIN hTimers :
       /\ hTimers[id] = [kind |-> "save", doc |-> "file:a.ts", original |-> "A",
                         content |-> "", st |-> "done"]
  /\ \E i \in DOMAIN heuristicChanges :
       /\ heuristicChanges[i].oldContent = "A"
       /\ heuristicChanges[i].newContent = "B"
       /\ heuristicChanges[i].filePath = "file:a.ts"
  /\ "file:a.ts" \in DOMAIN fileSnapshots
  /\ fileSnapshots["file:a.ts"] = "B"

(***************************************************************************)
(* Properties of HeuristicTracker's change detection                       *)
(***************************************************************************)
\* the number of directories between the workspace root and the file
DirectoriesBelowRoot(doc) ==
  Len(SelectSeq(SubSeq(doc.fsPath, Len(WorkspaceRoot) + 2, Len(doc.fsPath)),
                LAMBDA c : c = "/"))

\* a change notification for the file would reach the depth test: the
\* detector is enabled and watching, the file is not excluded and has no
\* snapshot
UntrackedChange(doc) ==
  /\ hIsEnabled
  /\ liveWatchers # {}
  /\ ~shouldExcludeFile(doc.fsPath)
  /\ Uri(doc) \notin DOMAIN fileSnapshots
  /\ Len(hTimers) < MaxHeuristicTimers

\* the handler arms a settle timer that will read the file
ArmsChangeTimer(doc) ==
  hTimers' = Append(hTimers, [kind |-> "change", doc |-> Uri(doc), original |-> "",
                              content |-> "", st |-> "armed"])

C21_NoOversizedRecord ==
  \A i \in DOMAIN heuristicChanges :
    ContentLength(heuristicChanges[i].newContent) <= SizeCeiling

\* C22, as claimed: every record of the detector, on every trigger path, has
\* toolName Heuristic, isHeuristic = true and the empty string as oldContent.
C22_OldContentAlwaysEmpty ==
  \A i \in DOMAIN heuristicChanges :
    /\ heuristicChanges[i].toolName = "Heuristic"
    /\ heuristicChanges[i].isHeuristic = TRUE
    /\ heuristicChanges[i].oldContent = ""

\* the callback of timer id ends in this step
CallbackEnds(id) == hTimers[id].st # "done" /\ hTimers'[id].st = "done"

\* the record is the one a callback of this timer stores: flagged as
\* heuristic, and with the snapshot captured at will-save as old content on
\* the save path, the empty string on the other paths
RecordOfTimer(record, timer) ==
  /\ record.toolName = "Heuristic"
  /\ record.isHeuristic = TRUE
  /\ record.filePath = timer.doc
  /\ record.oldContent = IF timer.kind = "save" THEN timer.original ELSE ""

\* C22, amended: every record of the detector has toolName Heuristic and
\* isHeuristic = true; its oldContent is the empty string on the creation,
\* change and untitled paths, and the snapshot captured at will-save on the
\* save path.
C22_HeuristicRecordShape ==
  [][heuristicChanges' # heuristicChanges =>
       /\ Len(heuristicChanges') = Len(heuristicChanges) + 1
       /\ SubSeq(heuristicChanges', 1, Len(heuristicChanges)) = heuristicChanges
       /\ \E id \in DOMAIN hTimers :
            /\ CallbackEnds(id)
            /\ RecordOfTimer(heuristicChanges'[Len(heuristicChanges')], hTimers[id])]_vars

\* a save of a.ts has been recorded with the snapshot "B" as old content
C22_Witness ==
  \E i \in DOMAIN heuristicChanges :
    /\ heuristicChanges[i].toolName = "Heuristic"
    /\ heuristicChanges[i].isHeuristic = TRUE
    /\ heuristicChanges[i].oldContent = "B"
    /\ heuristicChanges[i].newContent = "A"

(***************************************************************************)
(* Properties of HeuristicTracker's exclusion list                         *)
(***************************************************************************)
\* the path lies in or below a directory named out, which is what the
\* exclusion list of the model, **/out/**, matches
MatchesExclusion(doc) ==
  \E i \in DOMAIN doc.fsPath :
    /\ i + 4 <= Len(doc.fsPath)
    /\ SubSeq(doc.fsPath, i, i + 4) = <<"/", "o", "u", "t", "/">>

LiveTimers(ts) == { id \in DOMAIN ts : ts[id].st \in {"armed", "opening"} }

\* C24: closing a document on an enabled detector removes its snapshot and
\* cancels every pending timer for it, so that no timer set for the document
\* before the close is left to produce a record after it.
C24_CloseCancelsTimers ==
  [][\A doc \in EditorDocs :
       onDidCloseTextDocument(doc) /\ hIsEnabled =>
         /\ Uri(doc) \notin DOMAIN fileSnapshots'
         /\ \A id \in LiveTimers(hTimers') : hTimers'[id].doc # Uri(doc)]_vars

(***************************************************************************)
(* Properties of HeuristicTracker's untitled documents                     *)
(***************************************************************************)
\* C25: when an untitled, not-yet-saved document with non-empty content and
\* no snapshot is opened while the detector is enabled, the handler takes it
\* up, so that a creation record follows after the settle delay.
C25_UntitledOpenTakenUp ==
  \A doc \in EditorDocs :
    hIsEnabled /\ doc.isUntitled /\ Uri(doc) \notin DOMAIN fileSnapshots
      => ~OpenIgnored(doc)

(***************************************************************************)
(* Properties of HeuristicTracker's creation path                          *)
(***************************************************************************)
\* the creation handler acts on the file
CreationTracked(doc) == hIsEnabled /\ ~MatchesExclusion(doc)

ArmsCreateTimer(doc) ==
  hTimers' = Append(hTimers, [kind |-> "create", doc |-> Uri(doc), original |-> "",
                              content |-> "", st |-> "armed"])

\* the callback of creation timer id, finding the file with text `found`,
\* stores the text as snapshot and one record of it, unless it is empty
RecordsNewFile(id, found) ==
  IF found # ""
  THEN /\ hTimers[id].doc \in DOMAIN fileSnapshots'
       /\ fileSnapshots'[hTimers[id].doc] = found
       /\ heuristicChanges' =
            Append(heuristicChanges,
                   [sessionId |-> "heuristic", toolName |-> "Heuristic",
                    filePath |-> hTimers[id].doc, oldContent |-> "",
                    newContent |-> found, isHeuristic |-> TRUE])
  ELSE UNCHANGED <<fileSnapshots, heuristicChanges>>

LastN(changes, n) ==
  IF Len(changes) <= n THEN changes
  ELSE [i \in 1..n |-> changes[Len(changes) - n + i]]

\* C27: getRecentChanges(workspacePath, limit) returns the last `limit`
\* changes of the current session in extraction order, and all of them when
\* the session has at most `limit` changes.
C27_ReturnsMostRecent ==
  [][\A limit \in 0..MaxSessionChanges :
       CallGetRecentChanges(limit) => recentChanges' = LastN(sessionChanges, limit)]_vars

(***************************************************************************)
(* Properties of the workspace directory name                              *)
(***************************************************************************)
\* C28: decodeWorkspaceName(encodeWorkspacePath(p)) = p for every absolute
\* POSIX workspace path p.
C28_DecodeInvertsEncode ==
  codecStatus = "decoded" => decodedPath = workspacePath

(***************************************************************************)
(* Properties of the session file listing                                  *)
(***************************************************************************)
\* the directory the locator looks in: the first instance that has one for
\* the workspace, NoDir when there is none
SessionDirectory == IF SessionDirs = <<>> THEN NoDir ELSE Head(SessionDirs)

\* the listing is exactly the .jsonl files, each once, most recent first
ListsJsonlByMtime(files) ==
  /\ Range(files) = JsonlFiles
  /\ Len(files) = Cardinality(JsonlFiles)
  /\ \A i, j \in DOMAIN files : i < j => mtimeMs(files[i]) >= mtimeMs(files[j])

\* the file is a .jsonl file of the greatest modification time, or null when
\* there is none
GreatestMtime(file) ==
  IF SessionDirectory = NoDir \/ JsonlFiles = {} THEN file = NoFile
  ELSE file \in JsonlFiles /\ \A e \in JsonlFiles : mtimeMs(file) >= mtimeMs(e)

\* C29: getSessionFiles returns exactly the *.jsonl files of the workspace
\* session directory ordered by modification time, most recent first, and
\* getMostRecentSessionFile returns the file with the greatest modification
\* time, or null when the directory is absent or holds no .jsonl file.
C29_MostRecentFirst ==
  /\ SessionDirectory # NoDir =>
       /\ ~getSessionFiles(SessionDirectory).threw
       /\ ListsJsonlByMtime(getSessionFiles(SessionDirectory).files)
  /\ ~getMostRecentSessionFile.threw
  /\ GreatestMtime(getMostRecentSessionFile.file)

\* the tools whose use extractFileChanges turns into records
RecordedTools == {"Edit", "Write", "Bash"}

\* the content item is a use of one of the recorded tools
RecordedToolUse(item) == item.type = "tool_use" /\ item.name \in RecordedTools

\* C30: extractFileChanges produces records only from tool_use items named
\* Edit, Write or Bash inside assistant events whose message content is a
\* list.  Taking up an event adds no record; the items of an event are gone
\* through only when the event is an assistant event with list content; a
\* text item, a tool_result item and a tool_use item of any other name add
\* no record; and whenever the list of records changes, the step is the
\* handling of an Edit, Write or Bash tool_use item of such an event.
C30_OnlyRecordedToolUses ==
  [][/\ \A event \in SessionEvents :
          NextEvent(event) => extractedChanges' = extractedChanges
     /\ itemIndex' > itemIndex =>
          currentEvent.type = "assistant" /\ currentEvent.content = "array"
     /\ \A item \in Items :
          NextItem(item) /\ ~RecordedToolUse(item) =>
            extractedChanges' = extractedChanges
     /\ extractedChanges' # extractedChanges =>
          /\ currentEvent.type = "assistant"
          /\ currentEvent.content = "array"
          /\ \E item \in Items : RecordedToolUse(item) /\ NextItem(item)]_vars

\* an Edit of an assistant event was recorded, then an event of another
\* type was taken up, and the call returned the one record
C30_Witness ==
  /\ extractStatus = "returned"
  /\ eventIndex = 2
  /\ itemIndex = 0
  /\ currentEvent.type = "user"
  /\ currentEvent.content = "array"
  /\ Len(extractedChanges) = 1
  /\ extractedChanges[1].toolName = "Edit"

(***************************************************************************)
(* Properties of HeuristicTracker's open path                              *)
(***************************************************************************)
\* a saved file document outside the exclusion patterns
SavedFile(doc) ==
  doc.scheme = "file" /\ ~doc.isUntitled /\ ~MatchesExclusion(doc)

\* C31: opening a saved, non-excluded file document while the detector is
\* enabled is never ignored; it stores the document's text as the snapshot
\* of its uri, over any earlier snapshot, and leaves the timers, the pending
\* changes and the Heuristic records as they were, whether or not the
\* document had a snapshot before.
C31_OpenSnapshotsSilently ==
  /\ [](\A doc \in EditorDocs : hIsEnabled /\ SavedFile(doc) => ~OpenIgnored(doc))
  /\ [][\A doc \in EditorDocs, content \in Contents :
          (/\ hIsEnabled
           /\ UNCHANGED <<hIsEnabled, pendingChanges, heuristicChanges,
                           fileWatcher, liveWatchers, watchersCreated>>
           /\ Len(hTimers') = Len(hTimers) => hTimers' = hTimers
           /\ fileSnapshots' # fileSnapshots \/ hTimers' # hTimers
           /\ SavedFile(doc)
           /\ onDidOpenTextDocument(doc, content))
            => /\ fileSnapshots' = MapSet(fileSnapshots, Uri(doc), content)
               /\ hTimers' = hTimers
               /\ pendingChanges' = pendingChanges
               /\ heuristicChanges' = heuristicChanges]_vars

\* a.ts was opened with a text while it had no snapshot, then opened again
\* empty: only an open stores the empty text while no timer was ever armed
C31_Witness ==
  /\ hIsEnabled
  /\ hTimers = <<>>
  /\ Uri(CHOOSE d \in EditorDocs : d.name = "a.ts") \in DOMAIN fileSnapshots
  /\ fileSnapshots[Uri(CHOOSE d \in EditorDocs : d.name = "a.ts")] = ""

(***************************************************************************)
(* Properties of HeuristicTracker.shouldExcludeFile                        *)
(***************************************************************************)
\* glob matching of a prefix of str: `**` is any sequence of characters,
\* `*` any run of characters other than '/', `?` one character other than '/'
RECURSIVE GlobMatchesHere(_, _)
GlobMatchesHere(pattern, str) ==
  IF pattern = <<>> THEN TRUE
  ELSE IF Len(pattern) >= 2 /\ SubSeq(pattern, 1, 2) = <<"*", "*">>
       THEN \E k \in 0..Len(str) :
              GlobMatchesHere(SubSeq(pattern, 3, Len(pattern)),
                              SubSeq(str, k + 1, Len(str)))
  ELSE IF Head(pattern) = "*"
       THEN \E k \in 0..Len(str) :
              /\ \A i \in 1..k : str[i] # "/"
              /\ GlobMatchesHere(Tail(pattern), SubSeq(str, k + 1, Len(str)))
  ELSE IF Head(pattern) = "?"
       THEN str # <<>> /\ Head(str) # "/" /\ GlobMatchesHere(Tail(pattern), Tail(str))
  ELSE str # <<>> /\ Head(str) = Head(pattern)
         /\ GlobMatchesHere(Tail(pattern), Tail(str))

\* glob matching anywhere in the path with backslashes made forward slashes
GlobTest(pattern, filePath) ==
  \E i \in 1..(Len(filePath) + 1) :
    GlobMatchesHere(pattern,
                    SubSeq(NormalizePath(filePath), i, Len(filePath)))

\* C32: the test of a pattern against a path gives the glob reading of the
\* pattern: `**` matches any sequence of characters, '/' included, `*` any
\* run of characters other than '/', and `?` exactly one character other
\* than '/', on the path with backslashes normalized to forward slashes.
C32_GlobSemantics ==
  globTested => globResult = GlobTest(globPattern, globPath)

(***************************************************************************)
(* Properties of DiffTracker.showDiff                                      *)
(***************************************************************************)
\* C33: every diff editor is opened on temp files that hold its own
\* change's oldContent and newContent, however the showDiff calls in flight
\* interleave.
C33_DiffShowsOwnContents ==
  \A e \in DOMAIN diffEditors :
    /\ diffEditors[e].before = showCalls[diffEditors[e].call].change.oldContent
    /\ diffEditors[e].after = showCalls[diffEditors[e].call].change.newContent

(***************************************************************************)
(* Further properties of LiveDiffTracker                                   *)
(***************************************************************************)
\* C34: no timer callback invokes showDiff while the tracker is disabled,
\* for every interleaving of processChanges, setEnabled, reset, timer
\* expirations and completions of deliveries in flight.
C34_NoDeliveryWhileDisabled ==
  [][showDiffCalls' # showDiffCalls => isEnabled]_vars

\* C36: a processChanges call made while the tracker is disabled, or with an
\* empty list, leaves the seen-set, the pending map and the timers as they
\* were; and no step taken while the tracker is disabled adds a key to the
\* seen-set, so what was presented while disabled is unseen at the next
\* enable.
C36_DisabledCallChangesNothing ==
  /\ [](\A changes \in Batches, skipOnStartup \in BOOLEAN :
         ~isEnabled \/ Len(changes) = 0 =>
           ProcessResult(changes, skipOnStartup)
             = [seen |-> lastSeenChanges, timers |-> timers,
                pending |-> pendingDiffs])
  /\ [][~isEnabled => lastSeenChanges' \subseteq lastSeenChanges]_vars

\* a disabled tracker that has seen one key and not the others, with a
\* delivery made earlier: any record presented now stays as it is
C36_Witness ==
  /\ ~isEnabled
  /\ lastSeenChanges # {}
  /\ lastSeenChanges # Keys
  /\ showDiffCalls # {}

\* the timers a processChanges call creates for a change key
NewTimersOf(post, k) == { id \in NewTimers(post) : post.timers[id].key = k }

\* C37: when a batch given to the enabled tracker holds two unseen records
\* with the same change key, the call creates exactly one timer for that
\* key; it is armed, it is the one the pending map holds for the key, and
\* it carries the first of the two records.  No timer carries the later one.
C37_FirstOfKeyScheduled ==
  isEnabled =>
    \A changes \in Batches :
      \A i, j \in DOMAIN changes :
        (/\ i < j
         /\ getChangeKey(changes[i]) = getChangeKey(changes[j])
         /\ getChangeKey(changes[i]) \notin lastSeenChanges
         /\ \A h \in 1..(i - 1) :
              getChangeKey(changes[h]) # getChangeKey(changes[i]))
        => LET post == ProcessResult(changes, FALSE)
               k == getChangeKey(changes[i])
           IN /\ Cardinality(NewTimersOf(post, k)) = 1
              /\ \A id \in NewTimersOf(post, k) :
                   /\ post.timers[id].st = "armed"
                   /\ post.timers[id].change = changes[i]
                   /\ post.pending[k] = id
              /\ k \in post.seen

\* the batch of the two Edits of /a.ts, the one with text y first, was
\* processed: the only timer carries y, and the Edit with text x has none
C37_Witness ==
  /\ isEnabled
  /\ Len(timers) = 1
  /\ timers[1].st = "armed"
  /\ timers[1].change.newContent = "y"
  /\ lastSeenChanges = {timers[1].key}

\* the timers created since the host went quiet: each was scheduled by a
\* processChanges call that marked its record seen
ScheduledSinceQuiet == { id \in DOMAIN timers : quiet.on /\ id > quiet.timers }

\* the showDiff invocations made for a change key since the host went quiet
DeliveredSinceQuiet(k) ==
  { id \in showDiffCalls \ quiet.calls : timers[id].key = k }

\* C38: once a record has become seen and been scheduled, and the host calls
\* neither setEnabled(false) nor reset() afterwards, showDiff is invoked for
\* its key at most once: the number of invocations made for the key since
\* then never exceeds one.
C38_DeliveredOnceWhenQuiet ==
  \A id \in ScheduledSinceQuiet :
    Cardinality(DeliveredSinceQuiet(timers[id].key)) <= 1

\* The other half of C38, under SpecDeliverFair: the callback of every timer
\* scheduled since the host went quiet is eventually invoked and ends, and
\* the pending map then holds no entry for that timer.
EventuallyDelivered ==
  \A id \in 1..MaxTimers :
    (id \in ScheduledSinceQuiet)
      ~> (/\ id \in showDiffCalls
          /\ timers[id].st \in {"done", "failed"}
          /\ \/ timers[id].key \notin DOMAIN pendingDiffs
             \/ pendingDiffs[timers[id].key] # id)

(***************************************************************************)
(* Further properties of HeuristicTracker                                  *)
(***************************************************************************)
\* C35: whatever setEnabled calls are made, at most one workspace file
\* watcher is installed at any time.
C35_AtMostOneWatcher == Cardinality(liveWatchers) <= 1

\* C39: with one document saved again and again and no open, close, disable
\* or reset in between, the records of the save path chain: each record's
\* oldContent is the newContent of the record before it.
C39_SaveRecordsChain ==
  \A i \in 1..(Len(heuristicChanges) - 1) :
    heuristicChanges[i + 1].oldContent = heuristicChanges[i].newContent

====
